---------------------------- MODULE Spec2Model ----------------------------
(***************************************************************************)
(* Telemetry pub/sub coordinator of the smart-home platform:                *)
(*   - the wire codec (serialize_sample / deserialize_sample),              *)
(*   - the status-event discriminated union (telemetry_dto),                *)
(*   - TelemetrySubscriber (control-event loop, sample-consumption tasks),  *)
(*   - TelemetryPublisher and the push_some_events / push_and_listen demo.  *)
(*                                                                         *)
(* Four specifications share the module:                                    *)
(*   SpecCodec  applies the codec functions to inputs drawn in its Init,    *)
(*   SpecEvent  serializes / validates status events drawn in its Init,     *)
(*   Spec       runs a Subscriber fed by other producers,                   *)
(*   SpecDemo   runs push_and_listen: Subscriber, Publisher and broker.     *)
(***************************************************************************)
EXTENDS Integers, Sequences, FiniteSets, TLC

(***************************************************************************)
(* Python results: a call either returns a value or raises an exception.    *)
(***************************************************************************)
Ok(v) == [ok |-> TRUE, err |-> "", val |-> v]

Raise(e) == [ok |-> FALSE, err |-> e, val |-> <<>>]

Unset == [ok |-> FALSE, err |-> "<not called>", val |-> <<>>]

(***************************************************************************)
(* telemetry_dto.TelemetrySampleFormat: the members of the enum.            *)
(***************************************************************************)
TelemetrySampleFormat ==
    {"CUSTOM", "FLOAT_WITH_TIMESTAMP", "FLOAT_BINARY", "INT", "BOOL", "TEXT"}

\* Attribute access TelemetrySampleFormat.<name>: EnumMeta.__getattr__ finds a
\* member or raises AttributeError.
EnumGetattr(name) ==
    IF name \in TelemetrySampleFormat THEN Ok(name) ELSE Raise("AttributeError")

\* The attribute the codec and the demo name in `TelemetrySampleFormat.FLOAT`.
CodecFormatAttr == "FLOAT"

(***************************************************************************)
(* Python values.  A value is [t, v]: t the runtime type, v an integer.     *)
(* A float is held in half units (v = 45 is 22.5), so every float of the    *)
(* model is a dyadic rational; "nan" is float('nan').                       *)
(***************************************************************************)
PyNone == [t |-> "none", v |-> 0]

PyFloat(h) == [t |-> "float", v |-> h]

PyNaN == [t |-> "nan", v |-> 0]

PyInt(n) == [t |-> "int", v |-> n]

PyBool(b) == [t |-> "bool", v |-> IF b THEN 1 ELSE 0]

PyStr(n) == [t |-> "str", v |-> n]

PyObj(n) == [t |-> "obj", v |-> n]

\* `x is None`
PyIsNone(x) == x.t = "none"

\* `a == b` on values: NaN differs from everything, itself included.
PyEq(a, b) ==
    IF a.t = "nan" \/ b.t = "nan" THEN FALSE
    ELSE IF a.t = "none" \/ b.t = "none" THEN a.t = b.t
    ELSE IF a.t \in {"float", "int", "bool"} /\ b.t \in {"float", "int", "bool"}
         THEN (IF a.t = "float" THEN a.v ELSE 2 * a.v)
              = (IF b.t = "float" THEN b.v ELSE 2 * b.v)
    ELSE a = b

(***************************************************************************)
(* struct: IEEE-754 binary32, big endian (format ">f"), and bool (">?").    *)
(***************************************************************************)
RECURSIVE BitLen(_)
BitLen(n) == IF n = 0 THEN 0 ELSE 1 + BitLen(n \div 2)

\* Round a positive integer to 24 significant bits, ties to even.
RoundSig24(n) ==
    IF BitLen(n) <= 24 THEN n
    ELSE LET sh == BitLen(n) - 24
             q == n \div (2 ^ sh)
             r == n % (2 ^ sh)
             half == 2 ^ (sh - 1)
             up == r > half \/ (r = half /\ q % 2 = 1)
         IN  (IF up THEN q + 1 ELSE q) * (2 ^ sh)

\* The four bytes of struct.pack(">f", x) for a float of h half units.
PackFloat32(h) ==
    IF h = 0 THEN <<0, 0, 0, 0>>
    ELSE LET sign == IF h < 0 THEN 1 ELSE 0
             m == RoundSig24(IF h < 0 THEN -h ELSE h)
             L == BitLen(m)
             sig == IF L <= 24 THEN m * (2 ^ (24 - L)) ELSE m \div (2 ^ (L - 24))
             mant == sig - 2 ^ 23
             bexp == (L - 2) + 127
         IN  << sign * 128 + bexp \div 2,
                (bexp % 2) * 128 + mant \div 65536,
                (mant \div 256) % 256,
                mant % 256 >>

\* struct.unpack(">f", b) for four bytes b: a value of the model when the
\* float lies on the half-unit grid, else a float outside the model's grid.
UnpackFloat32(b) ==
    LET sign == b[1] \div 128
        bexp == (b[1] % 128) * 2 + b[2] \div 128
        mant == (b[2] % 128) * 65536 + b[3] * 256 + b[4]
        sig == mant + 2 ^ 23
        e == bexp - 127
        mag == IF e >= 22 THEN sig * (2 ^ (e - 22)) ELSE sig \div (2 ^ (22 - e))
    IN  IF bexp = 0 /\ mant = 0 THEN PyFloat(0)
        ELSE IF bexp = 255 THEN (IF mant = 0 THEN [t |-> "inf", v |-> sign] ELSE PyNaN)
        ELSE IF bexp = 0 \/ e > 28 \/ e < -1
                  \/ (e < 22 /\ sig % (2 ^ (22 - e)) # 0)
             THEN [t |-> "offgrid", v |-> bexp]
        ELSE PyFloat(IF sign = 1 THEN -mag ELSE mag)

\* struct.pack(">?", flag)
PackBool(flag) == << IF flag THEN 1 ELSE 0 >>

\* struct.pack(">?f", flag, x): ">" means no padding; "f" takes a float, an
\* int or a bool (converted to float), anything else is struct.error.
PackBoolFloat(flag, x) ==
    IF x.t = "float" THEN Ok(PackBool(flag) \o PackFloat32(x.v))
    ELSE IF x.t \in {"int", "bool"} THEN Ok(PackBool(flag) \o PackFloat32(2 * x.v))
    ELSE IF x.t = "nan" THEN Ok(PackBool(flag) \o <<127, 192, 0, 0>>)
    ELSE Raise("struct.error")

\* Python slice blob[lo:hi] (0-based, clipped) of a byte sequence.
Slice(blob, lo, hi) ==
    LET top == IF hi < Len(blob) THEN hi ELSE Len(blob)
    IN  IF lo >= top THEN <<>> ELSE SubSeq(blob, lo + 1, top)

\* struct.unpack(">?", b): exactly one byte, true iff it is non-zero.
UnpackBool(b) ==
    IF Len(b) # 1 THEN Raise("struct.error") ELSE Ok(PyBool(b[1] # 0))

\* struct.unpack(">f", b): exactly four bytes.
UnpackFloat(b) ==
    IF Len(b) # 4 THEN Raise("struct.error") ELSE Ok(UnpackFloat32(b))

(***************************************************************************)
(* Samples and broker records.                                              *)
(***************************************************************************)
Sample(cls, value, ts) == [cls |-> cls, value |-> value, timestamp |-> ts]

\* A record value is a byte string or None (a null-valued record).
Blob(bytes) == [none |-> FALSE, b |-> bytes]

NoneBlob == [none |-> TRUE, b |-> <<>>]

ConsumerRecord(topic, value, ts_ms) == [topic |-> topic, value |-> value, timestamp |-> ts_ms]

\* datetime.fromtimestamp(ms / 1000.0, tz=utc), in microseconds since the epoch.
FromTimestampMs(ms) == ms * 1000

\* serialize_sample as written, with the enum attribute it names.
SerializeWith(attr, sample, sample_format) ==
    LET member == EnumGetattr(attr)
    IN  IF ~member.ok THEN Raise(member.err)
        ELSE IF sample_format = member.val
             THEN IF PyIsNone(sample.value)
                  THEN Ok(PackBool(FALSE))
                  ELSE PackBoolFloat(TRUE, sample.value)
        ELSE Raise("NotImplementedError")

\* The same function had it named the member the enum defines.
serialize_sample_member(sample, sample_format) ==
    SerializeWith("FLOAT_BINARY", sample, sample_format)

serialize_sample(sample, sample_format) ==
    SerializeWith(CodecFormatAttr, sample, sample_format)

deserialize_sample(record, sample_format) ==
    LET member == EnumGetattr(CodecFormatAttr)
        ts_from_record == FromTimestampMs(record.timestamp)
        blob == record.value
    IN  IF ~member.ok THEN Raise(member.err)
        ELSE IF sample_format = member.val
             THEN IF blob.none
                  THEN Ok(Sample("FloatTelemetrySample", PyNone, ts_from_record))
                  ELSE LET has_val == UnpackBool(Slice(blob.b, 0, 1))
                           val == UnpackFloat(Slice(blob.b, 1, 5))
                       IN  IF ~has_val.ok THEN Raise(has_val.err)
                           ELSE IF PyIsNone(has_val.val)
                                THEN Ok(Sample("FloatTelemetrySample", PyNone, ts_from_record))
                           ELSE IF ~val.ok THEN Raise(val.err)
                           ELSE Ok(Sample("FloatTelemetrySample", val.val, ts_from_record))
        ELSE Raise("NotImplementedError")

(***************************************************************************)
(* telemetry_dto: the status-event classes and their discriminated union.   *)
(***************************************************************************)
EventClasses ==
    {"StatusEvent", "SensorStatusEvent", "SensorCreatedStatusEvent",
     "SensorDeletedStatusEvent", "SensorInfoStatusEvent", "SensorWarningStatusEvent",
     "SensorErrorStatusEvent", "SensorOtherStatusEvent",
     "MeasurementStartedStatusEvent", "MeasurementStoppedStatusEvent"}

\* The base class each class statement names.
Parent(cls) ==
    CASE cls = "SensorStatusEvent" -> "StatusEvent"
      [] cls = "SensorWarningStatusEvent" -> "SensorInfoStatusEvent"
      [] cls = "SensorErrorStatusEvent" -> "SensorWarningStatusEvent"
      [] cls = "StatusEvent" -> "BaseModel"
      [] OTHER -> "SensorStatusEvent"

RECURSIVE IsSubclass(_, _)
\* issubclass(cls, base) / isinstance(instance of cls, base)
IsSubclass(cls, base) ==
    IF cls = base THEN TRUE
    ELSE IF cls = "BaseModel" THEN FALSE
    ELSE IsSubclass(Parent(cls), base)

\* A discriminator that only the classes deriving directly from
\* SensorStatusEvent receive, deeper subclasses inheriting their parent's.
RECURSIVE InheritedDiscriminator(_)
InheritedDiscriminator(cls) ==
    IF cls = "StatusEvent" THEN "<none>"
    ELSE IF Parent(cls) \in {"StatusEvent", "SensorStatusEvent"} THEN cls
    ELSE InheritedDiscriminator(Parent(cls))

\* StatusEvent.__init_subclass__: every subclass, at any depth, gets the
\* annotation Literal[cls.__name__] and the default cls.__name__; the base
\* class itself has no such field.
DiscriminatorLiteral(cls) ==
    IF cls = "StatusEvent" THEN "<none>" ELSE cls

\* StatusEventUnion: the concrete classes, in declaration order.
StatusEventUnion ==
    << "SensorCreatedStatusEvent", "SensorDeletedStatusEvent", "SensorInfoStatusEvent",
       "SensorWarningStatusEvent", "SensorErrorStatusEvent", "SensorOtherStatusEvent",
       "MeasurementStartedStatusEvent", "MeasurementStoppedStatusEvent" >>

UnionMembers == {StatusEventUnion[i] : i \in DOMAIN StatusEventUnion}

\* Fields a class body declares without a default.
OwnRequired(cls) ==
    CASE cls = "StatusEvent" -> {"timestamp"}
      [] cls = "SensorStatusEvent" -> {"sensor_uuid"}
      [] cls = "SensorInfoStatusEvent" -> {"message"}
      [] cls = "MeasurementStartedStatusEvent" ->
             {"kafka_topic_name", "sampling_format", "sampling_interval"}
      [] cls = "MeasurementStoppedStatusEvent" -> {"sensor_uuid", "kafka_topic_name"}
      [] OTHER -> {}

RECURSIVE RequiredFields(_)
RequiredFields(cls) ==
    IF cls = "BaseModel" THEN {} ELSE OwnRequired(cls) \cup RequiredFields(Parent(cls))

\* Every field of a class: the required ones, sensor_name and the discriminator.
ModelFields(cls) ==
    RequiredFields(cls)
        \cup (IF IsSubclass(cls, "SensorStatusEvent") THEN {"sensor_name"} ELSE {})
        \cup (IF DiscriminatorLiteral(cls) = "<none>" THEN {} ELSE {"event_class_name"})

\* The value of kafka_topic_name where a class or a body carries none.
NoTopic == <<>>

\* An event instance.  kafka_topic_name / sampling_format are NoTopic / "-"
\* for the classes that do not declare them.
Event(cls, topic, format) ==
    [cls |-> cls,
     event_class_name |-> DiscriminatorLiteral(cls),
     kafka_topic_name |-> IF "kafka_topic_name" \in RequiredFields(cls) THEN topic ELSE NoTopic,
     sampling_format |-> IF "sampling_format" \in RequiredFields(cls) THEN format ELSE "-"]

\* A message body: JSON text (json), its keys (fields) and the values the
\* model tracks, or bytes that are not JSON at all.
Doc(tag, fields, topic, format) ==
    [json |-> TRUE, tag |-> tag, fields |-> fields,
     kafka_topic_name |-> topic, sampling_format |-> format]

NotJson == [json |-> FALSE, tag |-> "<none>", fields |-> {},
            kafka_topic_name |-> NoTopic, sampling_format |-> "-"]

\* event.model_dump_json().encode("utf-8")
model_dump_json(event) ==
    Doc(event.event_class_name, ModelFields(event.cls),
        event.kafka_topic_name, event.sampling_format)

\* validate_json that takes sampling_format as a plain string, without
\* checking it against the enum.
validate_json_any_format(body) ==
    LET choices == {c \in UnionMembers : DiscriminatorLiteral(c) = body.tag}
        cls == CHOOSE c \in choices : TRUE
    IN  IF ~body.json THEN Raise("ValidationError")
        ELSE IF "event_class_name" \notin body.fields \/ choices = {}
             THEN Raise("ValidationError")
        ELSE IF ~(RequiredFields(cls) \subseteq body.fields)
             THEN Raise("ValidationError")
        ELSE Ok(Event(cls, body.kafka_topic_name, body.sampling_format))

\* StatusEventTypeAdapter.validate_json(body): tag dispatch over the union,
\* then validation of the chosen class.  Two members with one tag make the
\* TypeAdapter itself fail to build.
validate_json(body) ==
    LET choices == {c \in UnionMembers : DiscriminatorLiteral(c) = body.tag}
        cls == CHOOSE c \in choices : TRUE
    IN  IF \E c \in UnionMembers, d \in UnionMembers :
               c # d /\ DiscriminatorLiteral(c) = DiscriminatorLiteral(d)
        THEN Raise("TypeError")
        ELSE IF ~body.json THEN Raise("ValidationError")
        ELSE IF "event_class_name" \notin body.fields \/ choices = {}
             THEN Raise("ValidationError")
        ELSE IF ~(RequiredFields(cls) \subseteq body.fields)
             THEN Raise("ValidationError")
        ELSE IF "sampling_format" \in RequiredFields(cls)
                  /\ body.sampling_format \notin TelemetrySampleFormat
             THEN Raise("ValidationError")
        ELSE Ok(Event(cls, body.kafka_topic_name, body.sampling_format))

(***************************************************************************)
(* State.                                                                   *)
(***************************************************************************)
VARIABLES
    \* codec harness: the inputs and what each call produced
    cx_sample, cx_format, cx_blob, cx_enc, cx_dec, cx_rt,
    \* status-event harness
    ev_in, ev_body, ev_json, ev_back, ev_parsed,
    \* topic-name harness: the constructor arguments of two Publishers and the
    \* topic_name each constructor computed
    tn_args, tn_names,
    \* topic-administrator harness: the broker's topics, the last call and its
    \* result, the create requests sent to the broker, the number of calls
    adm_broker, adm_call, adm_ret, adm_requests, adm_n,
    \* broker: topic descriptors, records of the control topic and of each data
    \* topic that the Subscriber's consumers have not fetched yet
    brokerTopics, controlQ, dataQ,
    \* TelemetrySubscriber: _is_initialized, _sample_topic_subscriptions, the
    \* data consumer's subscription / assignment / topics with a group offset,
    \* the listen_samples tasks ever created, _listen_samples_task, the
    \* listen_status_events task
    sub_init, registry, subscription, assignment, positioned,
    tasks, listen_samples_task, ctrl,
    \* the broker connection handles the Subscriber holds open
    sub_handles,
    \* history of the Subscriber: last lifecycle event per topic, kind of the last
    \* control body handled, whether a malformed body was handled, bodies of
    \* other producers still to come, last record received, samples passed to
    \* process_sample
    lastEvent, lastCtl, sawDropped, foreignLeft, lastRecv, handled,
    \* more history of the Subscriber: topic and format of the last
    \* MeasurementStarted handled, the number of writes to the registry, and for
    \* each listen_samples task the number of writes that preceded its creation
    lastStarted, reg_writes, built,
    \* TelemetryPublisher driven by push_some_events: program counter, the enum
    \* attribute the caller names, the samples argument it will push, the
    \* Publisher's fields, the producer's unsent records, the exception raised,
    \* whether the Subscriber was listening when the program started
    pse_pc, pub_attr, pub_plan, pub_format, pub_topic, inflight, pub_err, pub_sub_ready,
    \* the broker connection handles the Publisher holds open; history of its
    \* producer: the records the broker acknowledged and the records whose
    \* send failed, in order
    pub_handles, delivered, failed,
    \* two components calling _create_topic against one broker: the broker's
    \* topics, each caller's position, arguments, the names list_topics
    \* returned to it, and its result
    ct_broker, ct_pc, ct_args, ct_listed, ct_ret,
    \* initialize() of one component, await by await: the component's class, the
    \* position, _is_initialized, the state of the client each field refers to,
    \* the awaits that raised so far, what listen_status_events did on entry
    lc_kind, lc_pc, lc_init, lc_conn, lc_failures, lc_listen,
    \* telemetry_service.polling: app["running"], app["producer"], every
    \* producer and every poll_sensor task ever created, the module's _tasks,
    \* the requests handled so far, the response of the last one that completed
    running, app_producer, producers, poll_tasks, _tasks, requests, last_response,
    \* OldSystemTempSensorRouter: _sensor_uuids, the sensors of the old service,
    \* the last call and its result, the number of uuid4() values drawn
    _sensor_uuids, old_sensors, rt_call, rt_ret, uuid_count

codecVars == <<cx_sample, cx_format, cx_blob, cx_enc, cx_dec, cx_rt>>

eventVars == <<ev_in, ev_body, ev_json, ev_back, ev_parsed>>

topicVars == <<tn_args, tn_names>>

adminVars == <<adm_broker, adm_call, adm_ret, adm_requests, adm_n>>

raceVars == <<ct_broker, ct_pc, ct_args, ct_listed, ct_ret>>

lifeVars == <<lc_kind, lc_pc, lc_init, lc_conn, lc_failures, lc_listen>>

pollVars == <<running, app_producer, producers, poll_tasks, _tasks, requests,
              last_response>>

routerVars == <<_sensor_uuids, old_sensors, rt_call, rt_ret, uuid_count>>

serviceVars == <<raceVars, lifeVars, pollVars, routerVars>>

harnessVars == <<codecVars, eventVars, topicVars, adminVars, serviceVars>>

brokerVars == <<brokerTopics, controlQ, dataQ>>

subVars == <<sub_init, registry, subscription, assignment, positioned,
             tasks, listen_samples_task, ctrl, sub_handles>>

histVars == <<lastEvent, lastCtl, sawDropped, foreignLeft, lastRecv, handled,
              lastStarted, reg_writes, built>>

pubHist == <<delivered, failed>>

pubVars == <<pse_pc, pub_attr, pub_plan, pub_format, pub_topic, inflight, pub_err,
             pub_sub_ready, pub_handles, pubHist>>

sysVars == <<brokerVars, subVars, histVars, pubVars>>

vars == <<harnessVars, sysVars>>

\* TelemetryPublisher.__init__: the data-topic name
\* f"telemetry_samples__{sensor_name}__{sample_format.value}__{topic_uuid_str}"
topic_name(sensor_name, sample_format, topic_uuid_str) ==
    <<"telemetry_samples", sensor_name, sample_format, topic_uuid_str>>

\* uuid4() values of two measurement processes
Tokens == {"u1", "u2"}

TopicNames == {topic_name("float_temp_sensor_1", "FLOAT_BINARY", u) : u \in Tokens}

\* telemetry_dto.TELEMETRY_STATUS_EVENTS_TOPIC
TELEMETRY_STATUS_EVENTS_TOPIC == <<"telemetry_status_events">>

(***************************************************************************)
(* Bounds of the system model.                                              *)
(***************************************************************************)
\* control-topic bodies of other producers that the event loop handles
MaxForeign == 3

\* the same, while push_some_events runs
MaxDemoForeign == 1

\* calls of process_sample
MaxHandled == 2

\* sends of the Publisher's producer that fail
MaxSendFailures == 1

(***************************************************************************)
(* Inputs of push_some_events.                                              *)
(***************************************************************************)
Single(sample) == [single |-> TRUE, items |-> <<sample>>]

Batch(samples) == [single |-> FALSE, items |-> samples]

\* [FloatTelemetrySample(value=22.5 + i * 0.5) for i in range(5)]
FiveSamples ==
    [i \in 1..5 |-> Sample("FloatTelemetrySample", PyFloat(45 + (i - 1)), 0)]

PushInputs ==
    {Batch(FiveSamples), Batch(<<>>),
     Batch(<<Sample("FloatTelemetrySample", PyFloat(45), 0),
             Sample("IntTelemetrySample", PyInt(3), 0)>>),
     Batch(<<Sample("FloatTelemetrySample", PyFloat(45), 0),
             Sample("TextTelemetrySample", PyStr(1), 0)>>),
     Single(Sample("FloatTelemetrySample", PyFloat(45), 0)),
     Single(Sample("FloatTelemetrySample", PyNone, 0)),
     Single(Sample("IntTelemetrySample", PyInt(3), 0)),
     Single(Sample("BoolTelemetrySample", PyBool(TRUE), 0)),
     Single(Sample("TextTelemetrySample", PyStr(1), 0))}

NoPlan == Batch(<<"<unset>">>)

\* The enum attribute a caller names for its Publisher: push_some_events
\* writes TelemetrySampleFormat.FLOAT, the DTO demo writes FLOAT_BINARY.
CallerAttrs == {CodecFormatAttr, "FLOAT_BINARY"}

NoRecv == [task |-> 0, valid |-> FALSE, outcome |-> "<none>", afterBad |-> FALSE,
           seen |-> 0]

NoStarted == [topic |-> NoTopic, format |-> "-"]

\* The system right after TelemetrySubscriber() and before push_some_events.
InitSystem ==
    /\ brokerTopics = {}
    /\ controlQ = <<>>
    /\ dataQ = [t \in TopicNames |-> <<>>]
    /\ sub_init = FALSE
    /\ registry = [t \in TopicNames |-> "<absent>"]
    /\ subscription = {} /\ assignment = {} /\ positioned = {}
    /\ tasks = <<>>
    /\ listen_samples_task = 0
    /\ ctrl = "new"
    /\ lastEvent = [t \in TopicNames |-> "none"]
    /\ lastCtl = "<none>"
    /\ sawDropped = FALSE
    /\ lastRecv = NoRecv
    /\ handled = <<>>
    /\ lastStarted = NoStarted
    /\ reg_writes = 0
    /\ built = <<>>
    /\ pub_format = "-"
    /\ pub_topic = NoTopic
    /\ inflight = <<>>
    /\ pub_err = ""
    /\ pub_sub_ready = FALSE
    /\ pub_attr = "<unset>"
    /\ pub_plan = NoPlan
    /\ sub_handles = {} /\ pub_handles = {}
    /\ delivered = <<>> /\ failed = <<>>

IdleSystem ==
    /\ InitSystem
    /\ pse_pc = "absent"
    /\ foreignLeft = 0

(***************************************************************************)
(* Inputs of the codec harness.                                             *)
(***************************************************************************)
\* 22.5, 23.0, 0.0, -3.0, 8388608.5 (needs 25 significant bits) in half units
FloatInputs == {45, 46, 0, -6, 16777217}

SampleInputs ==
    {Sample("FloatTelemetrySample", PyFloat(h), 0) : h \in FloatInputs}
        \cup {Sample("FloatTelemetrySample", PyNone, 0),
              Sample("FloatTelemetrySample", PyNaN, 0),
              Sample("IntTelemetrySample", PyInt(3), 0),
              Sample("IntTelemetrySample", PyNone, 0),
              Sample("BoolTelemetrySample", PyBool(TRUE), 0),
              Sample("TextTelemetrySample", PyStr(1), 0),
              Sample("CustomTelemetrySample", PyObj(1), 0)}

\* Payloads: flag false; flag true + 22.5; flag false + 22.5; truncated; empty;
\* flag true + 22.5 + a trailing byte; a null-valued record.
BlobInputs ==
    {Blob(<<0>>), Blob(<<1, 65, 180, 0, 0>>), Blob(<<0, 65, 180, 0, 0>>),
     Blob(<<1, 65>>), Blob(<<>>), Blob(<<1, 65, 180, 0, 0, 9>>), NoneBlob}

\* The payloads the wire format defines: a false flag alone, or a true flag
\* and four float bytes.
WellFormedFloatPayload(blob) ==
    /\ ~blob.none
    /\ \/ blob.b = <<0>>
       \/ Len(blob.b) = 5 /\ blob.b[1] = 1

IdleCodec ==
    /\ cx_sample = Sample("FloatTelemetrySample", PyNone, 0)
    /\ cx_format = "FLOAT_BINARY"
    /\ cx_blob = NoneBlob
    /\ cx_enc = Unset /\ cx_dec = Unset /\ cx_rt = Unset

IdleEvent ==
    /\ ev_in = Event("SensorCreatedStatusEvent", NoTopic, "-")
    /\ ev_body = NotJson
    /\ ev_json = Unset /\ ev_back = Unset /\ ev_parsed = Unset

IdleTopic == tn_args = <<>> /\ tn_names = <<>>

IdleAdmin ==
    /\ adm_broker = {} /\ adm_call = <<>> /\ adm_ret = Unset
    /\ adm_requests = <<>> /\ adm_n = 0

\* The components of the other harnesses, not yet used.
NoArgs == [name |-> NoTopic, retention_days |-> 0, crash_if_exists |-> FALSE]

Callers == {"first", "second"}

IdleRace ==
    /\ ct_broker = {}
    /\ ct_pc = [c \in Callers |-> "idle"]
    /\ ct_args = [c \in Callers |-> NoArgs]
    /\ ct_listed = [c \in Callers |-> {}]
    /\ ct_ret = [c \in Callers |-> Unset]

ClientFields == {"admin", "status_event_consumer", "sample_consumer", "producer"}

IdleLife ==
    /\ lc_kind = "TelemetrySubscriber"
    /\ lc_pc = "new"
    /\ lc_init = FALSE
    /\ lc_conn = [f \in ClientFields |-> "None"]
    /\ lc_failures = <<>>
    /\ lc_listen = "not called"

\* poll_sensor("1", ..., "sensor1") and poll_sensor("2", ..., "sensor2")
Sensors == {"s1", "s2"}

\* main(): app["running"] = False; the module's _tasks = {}
IdlePoll ==
    /\ running = FALSE
    /\ app_producer = 0
    /\ producers = <<>>
    /\ poll_tasks = <<>>
    /\ _tasks = [s \in Sensors |-> 0]
    /\ requests = <<>>
    /\ last_response = "<none>"

DeviceIds == {1, 2, 3}

NoCall == [op |-> "<none>", device_id |-> 0, status |-> "-"]

\* OldSystemTempSensorRouter.__init__: self._sensor_uuids = defaultdict(uuid4)
IdleRouter ==
    /\ _sensor_uuids = [d \in DeviceIds |-> 0]
    /\ old_sensors = {}
    /\ rt_call = NoCall
    /\ rt_ret = Unset
    /\ uuid_count = 0

IdleService == IdleRace /\ IdleLife /\ IdlePoll /\ IdleRouter

InitCodec ==
    /\ cx_sample \in SampleInputs
    /\ cx_format \in TelemetrySampleFormat
    /\ cx_blob \in BlobInputs
    /\ cx_enc = Unset /\ cx_dec = Unset /\ cx_rt = Unset
    /\ IdleEvent /\ IdleTopic /\ IdleAdmin /\ IdleService
    /\ IdleSystem

\* serialize_sample(sample, format)
CodecSerialize ==
    /\ cx_enc = Unset
    /\ cx_enc' = serialize_sample(cx_sample, cx_format)
    /\ UNCHANGED <<cx_sample, cx_format, cx_blob, cx_dec, cx_rt, eventVars, topicVars, adminVars, sysVars,
                   serviceVars>>

\* deserialize_sample(record, format) on a record taken from the broker
CodecDeserialize ==
    /\ cx_dec = Unset
    /\ cx_dec' = deserialize_sample(ConsumerRecord("t", cx_blob, 1), cx_format)
    /\ UNCHANGED <<cx_sample, cx_format, cx_blob, cx_enc, cx_rt, eventVars, topicVars, adminVars, sysVars,
                   serviceVars>>

\* deserialize_sample(record carrying serialize_sample(sample, format), format)
CodecRoundTrip ==
    /\ cx_rt = Unset
    /\ LET enc == serialize_sample(cx_sample, cx_format)
       IN  cx_rt' = IF enc.ok
                    THEN deserialize_sample(ConsumerRecord("t", Blob(enc.val), 1), cx_format)
                    ELSE enc
    /\ UNCHANGED <<cx_sample, cx_format, cx_blob, cx_enc, cx_dec, eventVars, topicVars, adminVars, sysVars,
                   serviceVars>>

NextCodec == CodecSerialize \/ CodecDeserialize \/ CodecRoundTrip

SpecCodec == InitCodec /\ [][NextCodec]_vars

(***************************************************************************)
(* Inputs of the status-event harness.                                      *)
(***************************************************************************)

EventInputs ==
    {Event(c, t, f) : c \in EventClasses \ {"StatusEvent"}, t \in TopicNames,
                      f \in TelemetrySampleFormat}

\* Message bodies that no event serializes to: an unknown discriminator, no
\* discriminator, a missing required field, a format that is no enum member,
\* bytes that are not JSON.
MalformedBodies ==
    {Doc("NoSuchStatusEvent", ModelFields("SensorCreatedStatusEvent"), NoTopic, "-"),
     Doc("<none>", {"timestamp", "sensor_uuid"}, NoTopic, "-"),
     Doc("MeasurementStartedStatusEvent",
         ModelFields("MeasurementStartedStatusEvent") \ {"kafka_topic_name"},
         NoTopic, "FLOAT_BINARY"),
     Doc("MeasurementStartedStatusEvent", ModelFields("MeasurementStartedStatusEvent"),
         topic_name("float_temp_sensor_1", "FLOAT_BINARY", "u1"), "FLOAT"),
     NotJson}

BodyInputs == MalformedBodies \cup {model_dump_json(e) : e \in EventInputs}

InitEvent ==
    /\ ev_in \in EventInputs
    /\ ev_body \in BodyInputs
    /\ ev_json = Unset /\ ev_back = Unset /\ ev_parsed = Unset
    /\ IdleCodec /\ IdleTopic /\ IdleAdmin /\ IdleService
    /\ IdleSystem

\* json_bytes = event.model_dump_json().encode("utf-8")
EventSerialize ==
    /\ ev_json = Unset
    /\ ev_json' = Ok(model_dump_json(ev_in))
    /\ UNCHANGED <<ev_in, ev_body, ev_back, ev_parsed, codecVars, topicVars, adminVars, sysVars,
                   serviceVars>>

\* deserialized_event = StatusEventTypeAdapter.validate_json(json_bytes)
EventValidate ==
    /\ ev_json.ok /\ ev_back = Unset
    /\ ev_back' = validate_json(ev_json.val)
    /\ UNCHANGED <<ev_in, ev_body, ev_json, ev_parsed, codecVars, topicVars, adminVars, sysVars,
                   serviceVars>>

\* validate_json on a body received from the control topic
EventParseBody ==
    /\ ev_parsed = Unset
    /\ ev_parsed' = validate_json(ev_body)
    /\ UNCHANGED <<ev_in, ev_body, ev_json, ev_back, codecVars, topicVars, adminVars, sysVars,
                   serviceVars>>

NextEvent == EventSerialize \/ EventValidate \/ EventParseBody

SpecEvent == InitEvent /\ [][NextEvent]_vars

(***************************************************************************)
(* Data-topic names: strings are sequences of characters, "__" is two "_".  *)
(***************************************************************************)
\* TelemetrySampleFormat.<member>.value, the text of the member
EnumValue(member) ==
    CASE member = "CUSTOM" -> <<"CUSTOM">>
      [] member = "FLOAT_WITH_TIMESTAMP" -> <<"FLOAT", "_", "WITH", "_", "TIMESTAMP">>
      [] member = "FLOAT_BINARY" -> <<"FLOAT", "_", "BINARY">>
      [] member = "INT" -> <<"INT">>
      [] member = "BOOL" -> <<"BOOL">>
      [] member = "TEXT" -> <<"TEXT">>

\* The f-string without the process token.
topic_name_without_token(sensor_name, sample_format, topic_uuid_str) ==
    <<"telemetry_samples">> \o <<"_", "_">> \o sensor_name \o <<"_", "_">>
        \o EnumValue(sample_format)

\* f"telemetry_samples__{sensor_name}__{sample_format.value}__{topic_uuid_str}"
topic_name_text(sensor_name, sample_format, topic_uuid_str) ==
    <<"telemetry_samples">> \o <<"_", "_">> \o sensor_name \o <<"_", "_">>
        \o EnumValue(sample_format) \o <<"_", "_">> \o topic_uuid_str

\* Sensor names and process tokens, some holding the separator themselves.
SensorNames == { <<"s">>, <<"s", "_", "_", "t">>, <<"s", "_">> }

ProcessTokens == { <<"u">>, <<"v">>, <<"_", "u">> }

PublisherArgs ==
    [sensor_name : SensorNames, topic_uuid_str : ProcessTokens,
     sample_format : TelemetrySampleFormat]

InitTopic ==
    /\ tn_args \in PublisherArgs \X PublisherArgs
    /\ tn_names = <<Unset, Unset>>
    /\ IdleCodec /\ IdleEvent /\ IdleAdmin /\ IdleService
    /\ IdleSystem

\* TelemetryPublisher(sensor_name, topic_uuid_str, sample_format): topic_name
PublisherConstruct(k) ==
    /\ tn_names[k] = Unset
    /\ tn_names' = [tn_names EXCEPT ![k] =
                        Ok(topic_name_text(tn_args[k].sensor_name, tn_args[k].sample_format,
                                           tn_args[k].topic_uuid_str))]
    /\ UNCHANGED <<tn_args, codecVars, eventVars, adminVars, sysVars,
                   serviceVars>>

ConstructFirst == PublisherConstruct(1)

ConstructSecond == PublisherConstruct(2)

NextTopic == ConstructFirst \/ ConstructSecond

SpecTopic == InitTopic /\ [][NextTopic]_vars

(***************************************************************************)
(* Topic Administrator.                                                     *)
(***************************************************************************)
_STATUS_EVENTS_TOPIC_RETENTION_DAYS == 5

\* Retention taken as seconds.
RetentionSeconds(retention_days) == retention_days * 86400

\* int(timedelta(days=retention_days).total_seconds() * 1000)
RetentionMs(retention_days) == retention_days * 86400 * 1000

NewTopic(name, retention_days) ==
    [name |-> name, num_partitions |-> 1, replication_factor |-> 1,
     retention_ms |-> RetentionMs(retention_days), cleanup_policy |-> "delete"]

\* create_topic that creates the topic without listing the broker's topics.
create_topic_unchecked(topics, name, retention_days, crash_if_exists) ==
    Ok({d \in topics : d.name # name} \cup {NewTopic(name, retention_days)})

\* TelemetryQueueProcessor._create_topic on a broker holding `topics`:
\* the broker's topics afterwards, or the ValueError of crash_if_exists.
create_topic(topics, name, retention_days, crash_if_exists) ==
    IF \E d \in topics : d.name = name
    THEN IF crash_if_exists THEN Raise("ValueError") ELSE Ok(topics)
    ELSE Ok(topics \cup {NewTopic(name, retention_days)})

\* TelemetryQueueProcessor.close(), inherited unchanged by Subscriber and
\* Publisher: the handles still open after it has closed the admin client.
close(handles) == handles \ {"admin"}

\* The create_topics requests one _create_topic call sends to the broker.
create_topics_requests(topics, name, retention_days) ==
    IF create_topic(topics, name, retention_days, FALSE).val = topics
    THEN <<>>
    ELSE <<NewTopic(name, retention_days)>>

\* calls of the topic-administrator harness
MaxAdminCalls == 3

AdminTopicNames == {TELEMETRY_STATUS_EVENTS_TOPIC} \cup TopicNames

\* A topic some other administrator created, with a configuration of its own.
ForeignTopic(name) ==
    [name |-> name, num_partitions |-> 3, replication_factor |-> 1,
     retention_ms |-> 3600000, cleanup_policy |-> "compact"]

RetentionDaysInputs == {1, 5, 7}

InitAdmin ==
    /\ adm_broker \in {{}} \cup {{ForeignTopic(n)} : n \in AdminTopicNames}
    /\ adm_call = <<>> /\ adm_ret = Unset /\ adm_requests = <<>> /\ adm_n = 0
    /\ IdleCodec /\ IdleEvent /\ IdleTopic /\ IdleService
    /\ IdleSystem

\* One call _create_topic(name, retention_days, crash_if_exists) on the broker.
AdminCall(kind, name, retention_days, crash_if_exists) ==
    LET made == create_topic(adm_broker, name, retention_days, crash_if_exists)
    IN  /\ adm_n < MaxAdminCalls
        /\ adm_n' = adm_n + 1
        /\ adm_call' = [kind |-> kind, name |-> name, retention_days |-> retention_days,
                        crash_if_exists |-> crash_if_exists]
        /\ adm_ret' = IF made.ok THEN Ok("None") ELSE made
        /\ adm_broker' = IF made.ok THEN made.val ELSE adm_broker
        /\ adm_requests' = IF made.ok
                           THEN adm_requests
                                    \o create_topics_requests(adm_broker, name, retention_days)
                           ELSE adm_requests
        /\ UNCHANGED <<codecVars, eventVars, topicVars, sysVars,
                   serviceVars>>

\* await processor._create_topic(name, retention_days, crash_if_exists)
AdminCreateTopic ==
    \E name \in AdminTopicNames, retention_days \in RetentionDaysInputs,
       crash_if_exists \in BOOLEAN :
        AdminCall("_create_topic", name, retention_days, crash_if_exists)

\* await processor.initialize(): the control topic, created if it is absent
AdminInitialize ==
    AdminCall("initialize", TELEMETRY_STATUS_EVENTS_TOPIC,
              _STATUS_EVENTS_TOPIC_RETENTION_DAYS, FALSE)

NextAdmin == AdminCreateTopic \/ AdminInitialize

SpecAdmin == InitAdmin /\ [][NextAdmin]_vars

(***************************************************************************)
(* TelemetrySubscriber.                                                     *)
(***************************************************************************)
RegistryKeys(reg) == {t \in TopicNames : reg[t] # "<absent>"}

\* A re-subscription to the announced topic alone.
SubscribeAnnouncedTopic(reg, topic) == {topic}

\* The argument of subscribe: list(self._sample_topic_subscriptions.keys())
ResubscribeTopics(reg, topic) == RegistryKeys(reg)

Alive(task) == task.state \in {"created", "waiting"}

AliveTasks == {i \in DOMAIN tasks : Alive(tasks[i])}

\* The event loop restarts consumption on every valid status event.
RestartsOnAnyEvent(cls) == TRUE

\* isinstance(status_event, MeasurementStartedStatusEvent)
RestartsConsumption(cls) == IsSubclass(cls, "MeasurementStartedStatusEvent")

\* The announced topic is not entered into the registry.
RegisterNothing(reg, topic, format) == reg

\* self._sample_topic_subscriptions[kafka_topic_name] = sampling_format
RegisterTopic(reg, topic, format) == [reg EXCEPT ![topic] = format]

\* A cancel() that the task never notices.
CancelIgnored(task) == task

\* task.cancel(): a request, honoured when the task next runs; no effect on
\* a task that is done.
Cancel(task) == IF Alive(task) THEN [task EXCEPT !.must_cancel = TRUE] ELSE task

\* TelemetrySubscriber.initialize: base initialize (admin client, control
\* topic, _is_initialized), then both consumers are created and started; the
\* status consumer of a fresh group starts at the end of the control topic.
SubInitEffect ==
    /\ brokerTopics' = create_topic(brokerTopics, TELEMETRY_STATUS_EVENTS_TOPIC,
                                    _STATUS_EVENTS_TOPIC_RETENTION_DAYS, FALSE).val
    /\ sub_init' = TRUE
    /\ controlQ' = <<>>
    /\ sub_handles' = sub_handles \cup {"admin", "status_event_consumer", "sample_consumer"}

\* push_and_listen: subscriber = TelemetrySubscriber(); await subscriber.initialize()
SubInitialize ==
    /\ ~sub_init /\ ctrl = "new"
    /\ SubInitEffect
    /\ UNCHANGED <<dataQ, registry, subscription, assignment, positioned, tasks,
                   listen_samples_task, ctrl, histVars, pubVars, harnessVars>>

\* The listen_status_events task runs up to its first receive.
ListenStatusEvents ==
    /\ ctrl = "new"
    /\ ctrl' = "listening"
    /\ IF sub_init THEN UNCHANGED <<brokerTopics, sub_init, controlQ, sub_handles>>
                   ELSE SubInitEffect
    /\ UNCHANGED <<dataQ, registry, subscription, assignment, positioned, tasks,
                   listen_samples_task, histVars, pubVars, harnessVars>>

\* The body of the listen_status_events loop for one message: validate, and
\* on MeasurementStarted register the topic, re-subscribe the data consumer,
\* cancel the current task and create the next.  Any exception is logged.
HandleStatusMessage(body) ==
    LET status_event == validate_json(body)
        ev == status_event.val
        reg == RegisterTopic(registry, ev.kafka_topic_name, ev.sampling_format)
        old == IF listen_samples_task = 0 THEN tasks
               ELSE [tasks EXCEPT ![listen_samples_task] = Cancel(@)]
    IN  IF status_event.ok /\ RestartsConsumption(ev.cls)
        THEN /\ registry' = reg
             /\ subscription' = ResubscribeTopics(reg, ev.kafka_topic_name)
             /\ assignment' = {}
             /\ tasks' = Append(old, [state |-> "created", must_cancel |-> FALSE])
             /\ listen_samples_task' = Len(tasks) + 1
             /\ reg_writes' = reg_writes + 1
             /\ built' = Append(built, reg_writes + 1)
        ELSE UNCHANGED <<registry, subscription, assignment, tasks, listen_samples_task,
                         reg_writes, built>>

\* History of the control-event loop: what kind of body it handled.
BodyKind(body) ==
    IF body \in MalformedBodies THEN "malformed"
    ELSE IF body.tag = "MeasurementStartedStatusEvent" THEN "started"
    ELSE IF body.tag = "MeasurementStoppedStatusEvent" THEN "stopped"
    ELSE "other"

RecordStatusMessage(body) ==
    /\ lastCtl' = BodyKind(body)
    /\ sawDropped' = (sawDropped \/ BodyKind(body) = "malformed")
    /\ lastEvent' =
         IF BodyKind(body) \in {"started", "stopped"}
         THEN [lastEvent EXCEPT ![body.kafka_topic_name] = BodyKind(body)]
         ELSE lastEvent
    /\ lastStarted' =
         IF BodyKind(body) = "started"
         THEN [topic |-> body.kafka_topic_name, format |-> body.sampling_format]
         ELSE lastStarted

\* Events other producers announce on the control topic.
ForeignEvents ==
    {Event(c, t, f) : c \in UnionMembers, t \in TopicNames, f \in {"FLOAT_BINARY", "INT"}}

ForeignBodies == MalformedBodies \cup {model_dump_json(e) : e \in ForeignEvents}

\* async for message in self._status_event_consumer: a Publisher's event
ControlReceivePublished ==
    /\ ctrl = "listening" /\ controlQ # <<>>
    /\ HandleStatusMessage(Head(controlQ))
    /\ RecordStatusMessage(Head(controlQ))
    /\ controlQ' = Tail(controlQ)
    /\ UNCHANGED <<brokerTopics, dataQ, sub_init, positioned, ctrl, sub_handles,
                   foreignLeft, lastRecv, handled, pubVars, harnessVars>>

\* async for message in self._status_event_consumer: another producer's body
ControlReceiveForeign ==
    /\ ctrl = "listening" /\ foreignLeft > 0
    /\ \E body \in ForeignBodies :
          /\ HandleStatusMessage(body)
          /\ RecordStatusMessage(body)
    /\ foreignLeft' = foreignLeft - 1
    /\ UNCHANGED <<brokerVars, sub_init, positioned, ctrl, sub_handles,
                   lastRecv, handled, pubVars, harnessVars>>

\* The data consumer's group rebalance after subscribe(): the subscribed
\* topics are assigned; a topic the group has no offset for starts at its end.
Rebalance ==
    /\ sub_init /\ assignment # subscription
    /\ assignment' = subscription
    /\ positioned' = positioned \cup subscription
    /\ dataQ' = [t \in TopicNames |->
                    IF t \in subscription \ positioned THEN <<>> ELSE dataQ[t]]
    /\ UNCHANGED <<brokerTopics, controlQ, sub_init, registry, subscription, tasks,
                   listen_samples_task, ctrl, sub_handles, histVars, pubVars,
                   harnessVars>>

\* First step of a listen_samples task: a cancelled task never enters the
\* coroutine; otherwise it runs to the first receive of the async for.
SampleTaskStart ==
    \E i \in DOMAIN tasks :
        /\ tasks[i].state = "created"
        /\ tasks' = [tasks EXCEPT ![i].state =
                        IF tasks[i].must_cancel THEN "cancelled" ELSE "waiting"]
        /\ UNCHANGED <<brokerVars, sub_init, registry, subscription, assignment,
                       positioned, listen_samples_task, ctrl, sub_handles, histVars,
                       pubVars, harnessVars>>

\* The per-record handler catches the CancelledError: the task goes on
\* consuming.
AfterCancelledErrorSwallowed(task) == [task EXCEPT !.must_cancel = FALSE]

\* except asyncio.CancelledError: logged and re-raised, the task is cancelled.
AfterCancelledError(task) == [task EXCEPT !.state = "cancelled"]

\* CancelledError raised at the receive: logged and re-raised.
SampleTaskCancelled ==
    \E i \in DOMAIN tasks :
        /\ tasks[i].state = "waiting" /\ tasks[i].must_cancel
        /\ tasks' = [tasks EXCEPT ![i] = AfterCancelledError(@)]
        /\ UNCHANGED <<brokerVars, sub_init, registry, subscription, assignment,
                       positioned, listen_samples_task, ctrl, sub_handles, histVars,
                       pubVars, harnessVars>>

\* A receive error that stays inside the loop: the task goes on waiting.
AfterReceiveErrorLogged(task) == task

\* An exception of the receive reaches the outer handlers of listen_samples:
\* it is logged and re-raised, the task is done with that exception.
AfterReceiveError(task) == [task EXCEPT !.state = "failed"]

\* async for message in self._sample_consumer: the receive itself raises.
SampleTransportError ==
    \E i \in DOMAIN tasks :
        /\ tasks[i].state = "waiting" /\ ~tasks[i].must_cancel
        /\ tasks' = [tasks EXCEPT ![i] = AfterReceiveError(@)]
        /\ lastRecv' = [task |-> i, valid |-> FALSE, outcome |-> "KafkaError",
                        afterBad |-> FALSE, seen |-> 0]
        /\ UNCHANGED <<brokerVars, sub_init, registry, subscription, assignment,
                       positioned, listen_samples_task, ctrl, sub_handles, lastEvent,
                       lastCtl, sawDropped, foreignLeft, handled, lastStarted,
                       reg_writes, built, pubVars, harnessVars>>

\* Payloads of other producers on a data topic: the wire format's two shapes
\* and the bare four float bytes that polling.poll_sensor sends.
ForeignPayloads == {Blob(<<0>>), Blob(<<1, 65, 180, 0, 0>>), Blob(<<65, 180, 0, 0>>)}

\* The body of the listen_samples loop for one record: the name of what
\* ended it ("handled", or the exception the inner except logs).
SampleOutcome(record, handler_raises) ==
    LET sample_format == registry[record.topic]
        sample == deserialize_sample(record, sample_format)
    IN  IF sample_format = "<absent>" THEN "KeyError"
        ELSE IF ~sample.ok THEN sample.err
        ELSE IF handler_raises THEN "handler raised"
        ELSE "handled"

\* process_sample(topic, sample) was called for this record
HandlerCalled(outcome) == outcome \in {"handled", "handler raised"}

\* History of the sample loop: the record was one the wire format defines,
\* on a topic registered as FLOAT_BINARY; how its handling ended; whether the
\* record the same task received just before had failed.
ReceiveRecord(i, record, handler_raises) ==
    LET outcome == SampleOutcome(record, handler_raises)
    IN  /\ lastRecv' = [task |-> i,
                        valid |-> /\ WellFormedFloatPayload(record.value)
                                  /\ registry[record.topic] = "FLOAT_BINARY",
                        outcome |-> outcome,
                        afterBad |-> lastRecv.task = i /\ lastRecv.outcome # "handled",
                        seen |-> reg_writes]
        /\ handled' = IF HandlerCalled(outcome)
                      THEN Append(handled,
                                  <<record.topic,
                                    deserialize_sample(record, registry[record.topic]).val.value>>)
                      ELSE handled

\* async for message in self._sample_consumer: the next record of an assigned
\* topic, sent by a Publisher (the head of dataQ) or by another producer.
SampleReceive ==
    \E i \in DOMAIN tasks, t \in assignment, hr \in BOOLEAN :
      \E src \in {"foreign"} \cup (IF dataQ[t] # <<>> THEN {"published"} ELSE {}) :
        \E value \in IF src = "published" THEN {Head(dataQ[t]).value} ELSE ForeignPayloads :
            /\ tasks[i].state = "waiting" /\ ~tasks[i].must_cancel
            /\ Len(handled) < MaxHandled
            /\ ReceiveRecord(i, ConsumerRecord(t, value, 1), hr)
            /\ dataQ' = IF src = "published" THEN [dataQ EXCEPT ![t] = Tail(@)] ELSE dataQ
            /\ UNCHANGED <<brokerTopics, controlQ, subVars, lastEvent, lastCtl,
                           sawDropped, foreignLeft, lastStarted, reg_writes, built,
                           pubVars, harnessVars>>

(***************************************************************************)
(* TelemetryPublisher, driven by push_some_events.                          *)
(***************************************************************************)
\* An exception leaves push_some_events.
PseRaise(e) == pse_pc' = "raised" /\ pub_err' = e

\* producer.send: the record joins the producer's unsent records.
Enqueue(topic, value, src, awaited) ==
    Append(inflight, [topic |-> topic, value |-> value, src |-> src, awaited |-> awaited])

\* publisher = TelemetryPublisher(sensor_name, str(sensor_uuid), TelemetrySampleFormat.<attr>)
PubConstruct ==
    /\ pse_pc = "start"
    /\ pub_sub_ready' = (ctrl = "listening")
    /\ \E attr \in CallerAttrs :
          LET member == EnumGetattr(attr)
          IN  /\ pub_attr' = attr
              /\ IF member.ok
                 THEN /\ pse_pc' = "constructed"
                      /\ pub_format' = member.val
                      /\ pub_topic' = topic_name("float_temp_sensor_1", member.val, "u1")
                      /\ UNCHANGED pub_err
                 ELSE /\ PseRaise(member.err)
                      /\ UNCHANGED <<pub_format, pub_topic>>
    /\ UNCHANGED <<pub_plan, inflight, pub_handles, pubHist, brokerVars, subVars,
                   histVars, harnessVars>>

\* await publisher.initialize(): admin client, control topic, producer
PubInitialize ==
    /\ pse_pc = "constructed"
    /\ pse_pc' = "initialized"
    /\ pub_handles' = pub_handles \cup {"admin", "producer"}
    /\ brokerTopics' = create_topic(brokerTopics, TELEMETRY_STATUS_EVENTS_TOPIC,
                                    _STATUS_EVENTS_TOPIC_RETENTION_DAYS, FALSE).val
    /\ UNCHANGED <<controlQ, dataQ, pub_attr, pub_plan, pub_format, pub_topic, inflight,
                   pub_err, pub_sub_ready, pubHist, subVars, histVars, harnessVars>>

\* await publisher._create_topic(publisher.topic_name)
PubCreateTopic ==
    /\ pse_pc = "initialized"
    /\ LET made == create_topic(brokerTopics, pub_topic, 1, TRUE)
       IN  IF made.ok
           THEN /\ brokerTopics' = made.val
                /\ pse_pc' = "topic_created"
                /\ UNCHANGED pub_err
           ELSE /\ PseRaise(made.err)
                /\ UNCHANGED brokerTopics
    /\ UNCHANGED <<controlQ, dataQ, pub_attr, pub_plan, pub_format, pub_topic, inflight,
                   pub_sub_ready, pub_handles, pubHist, subVars, histVars, harnessVars>>

\* push_status_event(event): send_and_wait on the control topic, up to the send
PushStatusEvent(event, next_pc) ==
    /\ inflight' = Enqueue(TELEMETRY_STATUS_EVENTS_TOPIC, model_dump_json(event),
                           event.cls, TRUE)
    /\ pse_pc' = next_pc
    /\ UNCHANGED <<pub_attr, pub_plan, pub_format, pub_topic, pub_err, pub_sub_ready,
                   pub_handles, pubHist, brokerVars, subVars, histVars, harnessVars>>

\* await publisher.push_status_event(measurement_start_event)
PubAnnounceStarted ==
    /\ pse_pc = "topic_created"
    /\ PushStatusEvent(Event("MeasurementStartedStatusEvent", pub_topic, pub_format),
                       "await_started")

\* await publisher.push_status_event(measurement_stop_event)
PubAnnounceStopped ==
    /\ pse_pc = "pushed"
    /\ PushStatusEvent(Event("MeasurementStoppedStatusEvent", pub_topic, "-"),
                       "await_stopped")

RECURSIVE SerializeEncodable(_, _)
\* A loop that skips the samples serialize_sample raises for.
SerializeEncodable(samples, sample_format) ==
    IF samples = <<>> THEN Ok(<<>>)
    ELSE LET first == serialize_sample(Head(samples), sample_format)
             rest == SerializeEncodable(Tail(samples), sample_format)
         IN  IF first.ok
             THEN Ok(<<[value |-> Blob(first.val), src |-> Head(samples).cls]>> \o rest.val)
             ELSE rest

RECURSIVE SerializeAll(_, _)
\* The for loop of push_samples over a batch: the payloads in order, or the
\* first exception serialize_sample raises.
SerializeAll(samples, sample_format) ==
    IF samples = <<>> THEN Ok(<<>>)
    ELSE LET first == serialize_sample(Head(samples), sample_format)
             rest == SerializeAll(Tail(samples), sample_format)
         IN  IF ~first.ok THEN first
             ELSE IF ~rest.ok THEN rest
             ELSE Ok(<<[value |-> Blob(first.val), src |-> Head(samples).cls]>> \o rest.val)

RECURSIVE EnqueueAll(_, _, _)
EnqueueAll(queue, topic, payloads) ==
    IF payloads = <<>> THEN queue
    ELSE EnqueueAll(Append(queue, [topic |-> topic, value |-> Head(payloads).value,
                                   src |-> Head(payloads).src, awaited |-> FALSE]),
                    topic, Tail(payloads))

\* A sequence without its k-th element (all of it for k = 0).
Without(seq, k) ==
    IF k = 0 THEN seq ELSE SubSeq(seq, 1, k - 1) \o SubSeq(seq, k + 1, Len(seq))

\* await publisher.push_samples(samples).  A single sample is serialized and
\* sent with send_and_wait.  For an iterable every sample is serialized and
\* its send coroutine created; gather runs the coroutines, each of which
\* returns once its record is with the producer, or raises (the bad-th one)
\* when it cannot hand its record over, which gather raises to the caller.
PubPushSamples ==
    /\ pse_pc = "announced"
    /\ \E samples \in PushInputs :
          LET payloads == SerializeAll(samples.items, pub_format)
          IN  /\ pub_plan' = samples
              /\ IF ~payloads.ok
                 THEN PseRaise(payloads.err) /\ UNCHANGED <<inflight, failed>>
                 ELSE IF samples.single
                 THEN /\ inflight' = Enqueue(pub_topic, payloads.val[1].value,
                                             payloads.val[1].src, TRUE)
                      /\ pse_pc' = "await_sample"
                      /\ UNCHANGED <<pub_err, failed>>
                 ELSE \E bad \in 0..(IF Len(failed) < MaxSendFailures
                                     THEN Len(payloads.val) ELSE 0) :
                        /\ inflight' = EnqueueAll(inflight, pub_topic,
                                                  Without(payloads.val, bad))
                        /\ IF bad = 0
                           THEN /\ pse_pc' = "pushed"
                                /\ UNCHANGED <<pub_err, failed>>
                           ELSE /\ PseRaise("KafkaError")
                                /\ failed' = Append(failed, [src |-> payloads.val[bad].src,
                                                             awaited |-> TRUE])
    /\ UNCHANGED <<pub_attr, pub_format, pub_topic, pub_sub_ready, pub_handles, delivered,
                   brokerVars, subVars, histVars, harnessVars>>

\* The producer's sender delivers the oldest unsent record of some topic; the
\* broker appends it to that topic.
ProducerSend ==
    \E k \in DOMAIN inflight :
        LET m == inflight[k]
        IN  /\ \A j \in 1..(k - 1) : inflight[j].topic # m.topic
            /\ inflight' = SubSeq(inflight, 1, k - 1) \o SubSeq(inflight, k + 1, Len(inflight))
            /\ IF m.topic = TELEMETRY_STATUS_EVENTS_TOPIC
               THEN controlQ' = Append(controlQ, m.value) /\ UNCHANGED dataQ
               ELSE /\ dataQ' = [dataQ EXCEPT ![m.topic] =
                                    Append(@, [value |-> m.value, src |-> m.src])]
                    /\ UNCHANGED controlQ
            /\ delivered' = Append(delivered, m.src)
            /\ UNCHANGED <<brokerTopics, pse_pc, pub_attr, pub_plan, pub_format, pub_topic,
                           pub_err, pub_sub_ready, pub_handles, failed, subVars, histVars,
                           harnessVars>>

\* The producer cannot deliver the oldest unsent record of some topic: its
\* future gets the exception, which send_and_wait raises to its caller; the
\* future of a record sent with send alone has no one awaiting it.
ProducerSendFails ==
    \E k \in DOMAIN inflight :
        LET m == inflight[k]
        IN  /\ Len(failed) < MaxSendFailures
            /\ \A j \in 1..(k - 1) : inflight[j].topic # m.topic
            /\ inflight' = Without(inflight, k)
            /\ failed' = Append(failed, [src |-> m.src, awaited |-> m.awaited])
            /\ IF m.awaited THEN PseRaise("KafkaError") ELSE UNCHANGED <<pse_pc, pub_err>>
            /\ UNCHANGED <<pub_attr, pub_plan, pub_format, pub_topic, pub_sub_ready,
                           pub_handles, delivered, brokerVars, subVars, histVars,
                           harnessVars>>

\* A send_and_wait that returns as soon as its record is with the producer.
SendAndWaitReturnsAtOnce(queue) == TRUE

\* await future in send_and_wait: no record of this call is unacknowledged.
SendAndWaitDone(queue) == \A k \in DOMAIN queue : ~queue[k].awaited

\* send_and_wait returns: the record it sent has been acknowledged.
PubSendAcked ==
    /\ pse_pc \in {"await_started", "await_sample", "await_stopped"}
    /\ SendAndWaitDone(inflight)
    /\ pse_pc' = CASE pse_pc = "await_started" -> "announced"
                   [] pse_pc = "await_sample" -> "pushed"
                   [] pse_pc = "await_stopped" -> "stopped"
    /\ UNCHANGED <<pub_attr, pub_plan, pub_format, pub_topic, inflight, pub_err,
                   pub_sub_ready, pub_handles, pubHist, brokerVars, subVars, histVars,
                   harnessVars>>

\* await publisher.close(), and push_some_events returns
PubClose ==
    /\ pse_pc = "stopped"
    /\ pse_pc' = "returned"
    /\ pub_handles' = close(pub_handles)
    /\ UNCHANGED <<pub_attr, pub_plan, pub_format, pub_topic, inflight, pub_err,
                   pub_sub_ready, pubHist, brokerVars, subVars, histVars, harnessVars>>

\* push_and_listen: an exception of push_some_events is printed; the finally
\* block cancels the listen_status_events task, awaits it and closes the
\* Subscriber.
PushAndListenFinally ==
    /\ pse_pc = "raised" /\ ctrl # "cancelled"
    /\ ctrl' = "cancelled"
    /\ sub_handles' = close(sub_handles)
    /\ UNCHANGED <<brokerVars, sub_init, registry, subscription, assignment, positioned,
                   tasks, listen_samples_task, histVars, pubVars, harnessVars>>

\* A Subscriber alone, fed by other producers.
Init ==
    /\ InitSystem
    /\ pse_pc = "absent"
    /\ foreignLeft = MaxForeign
    /\ IdleCodec /\ IdleEvent /\ IdleTopic /\ IdleAdmin /\ IdleService

Next ==
    \/ SubInitialize
    \/ ListenStatusEvents
    \/ ControlReceiveForeign
    \/ Rebalance
    \/ SampleTaskStart
    \/ SampleTaskCancelled
    \/ SampleTransportError
    \/ SampleReceive

Spec == Init /\ [][Next]_vars

\* The same Subscriber on an asyncio event loop: a task made ready by
\* create_task, or woken by cancel(), is run by the loop (call_soon is FIFO).
FairSpec ==
    /\ Init /\ [][Next]_vars
    /\ WF_vars(SampleTaskStart)
    /\ WF_vars(SampleTaskCancelled)

\* push_and_listen: a Subscriber and push_some_events on one event loop.
InitDemo ==
    /\ InitSystem
    /\ pse_pc = "start"
    /\ foreignLeft = MaxDemoForeign
    /\ IdleCodec /\ IdleEvent /\ IdleTopic /\ IdleAdmin /\ IdleService

NextDemo ==
    \/ SubInitialize
    \/ ListenStatusEvents
    \/ ControlReceivePublished
    \/ ControlReceiveForeign
    \/ Rebalance
    \/ SampleTaskStart
    \/ SampleTaskCancelled
    \/ SampleTransportError
    \/ SampleReceive
    \/ PubConstruct
    \/ PubInitialize
    \/ PubCreateTopic
    \/ PubAnnounceStarted
    \/ PubPushSamples
    \/ ProducerSend
    \/ ProducerSendFails
    \/ PubSendAcked
    \/ PubAnnounceStopped
    \/ PubClose
    \/ PushAndListenFinally

SpecDemo == InitDemo /\ [][NextDemo]_vars


(***************************************************************************)
(* Two components calling _create_topic against one broker.                 *)
(***************************************************************************)
\* topics = await self._kafka_admin.list_topics(): the names the broker holds
list_topics(topics) == {d.name : d \in topics}

\* The error code of the broker's response to a create request for one topic.
CreateTopicsErrorCode(topics, new_topic) ==
    IF new_topic.name \in list_topics(topics) THEN "TOPIC_ALREADY_EXISTS" ELSE "NONE"

\* The broker's topics after that request: a request for a name it holds is
\* rejected, the topic it holds stays as it is.
BrokerCreateTopics(topics, new_topic) ==
    IF CreateTopicsErrorCode(topics, new_topic) = "NONE"
    THEN topics \cup {new_topic}
    ELSE topics

\* A call that raises the error its response carries.
RaiseOnErrorCode(error_code) ==
    IF error_code = "NONE" THEN Ok("None") ELSE Raise("TopicAlreadyExistsError")

\* await self._kafka_admin.create_topics([topic]): the response is returned
\* by the client and dropped by _create_topic, whatever its error code.
AfterCreateTopics(error_code) == Ok("None")

InitRace ==
    /\ ct_broker \in {{}} \cup {{ForeignTopic(n)} : n \in AdminTopicNames}
    /\ ct_pc = [c \in Callers |-> "idle"]
    /\ ct_args = [c \in Callers |-> NoArgs]
    /\ ct_listed = [c \in Callers |-> {}]
    /\ ct_ret = [c \in Callers |-> Unset]
    /\ IdleCodec /\ IdleEvent /\ IdleTopic /\ IdleAdmin
    /\ IdleLife /\ IdlePoll /\ IdleRouter
    /\ IdleSystem

\* _create_topic(name, retention_days, crash_if_exists) up to the answer of
\* list_topics
CtListTopics ==
    \E c \in Callers, name \in AdminTopicNames, retention_days \in RetentionDaysInputs,
       crash_if_exists \in BOOLEAN :
        /\ ct_pc[c] = "idle"
        /\ ct_args' = [ct_args EXCEPT ![c] =
                          [name |-> name, retention_days |-> retention_days,
                           crash_if_exists |-> crash_if_exists]]
        /\ ct_listed' = [ct_listed EXCEPT ![c] = list_topics(ct_broker)]
        /\ ct_pc' = [ct_pc EXCEPT ![c] = "listed"]
        /\ UNCHANGED <<ct_broker, ct_ret, codecVars, eventVars, topicVars, adminVars,
                       lifeVars, pollVars, routerVars, sysVars>>

\* if topic_name in topics: return, or raise ValueError under crash_if_exists
CtExists ==
    \E c \in Callers :
        /\ ct_pc[c] = "listed" /\ ct_args[c].name \in ct_listed[c]
        /\ ct_ret' = [ct_ret EXCEPT ![c] = IF ct_args[c].crash_if_exists
                                           THEN Raise("ValueError") ELSE Ok("None")]
        /\ ct_pc' = [ct_pc EXCEPT ![c] = "done"]
        /\ UNCHANGED <<ct_broker, ct_args, ct_listed, codecVars, eventVars, topicVars,
                       adminVars, lifeVars, pollVars, routerVars, sysVars>>

\* else: the create request, answered by the broker as it is by then
CtCreateTopics ==
    \E c \in Callers :
        LET topic == NewTopic(ct_args[c].name, ct_args[c].retention_days)
        IN  /\ ct_pc[c] = "listed" /\ ct_args[c].name \notin ct_listed[c]
            /\ ct_broker' = BrokerCreateTopics(ct_broker, topic)
            /\ ct_ret' = [ct_ret EXCEPT ![c] =
                             AfterCreateTopics(CreateTopicsErrorCode(ct_broker, topic))]
            /\ ct_pc' = [ct_pc EXCEPT ![c] = "done"]
            /\ UNCHANGED <<ct_args, ct_listed, codecVars, eventVars, topicVars, adminVars,
                           lifeVars, pollVars, routerVars, sysVars>>

NextRace == CtListTopics \/ CtExists \/ CtCreateTopics

SpecRace == InitRace /\ [][NextRace]_vars


(***************************************************************************)
(* initialize() of a Subscriber or a Publisher, await by await.             *)
(***************************************************************************)
\* awaits of initialize() that raise
MaxInitFailures == 2

ComponentClasses == {"TelemetrySubscriber", "TelemetryPublisher"}

\* The broker clients a component's initialize creates and starts.
Connections(kind) ==
    IF kind = "TelemetrySubscriber"
    THEN {"admin", "status_event_consumer", "sample_consumer"}
    ELSE {"admin", "producer"}

\* The awaits of initialize, in order: those of the base class, then the
\* subclass's.
InitializeAwaits(kind) ==
    <<"admin.start", "_create_topic">>
        \o (IF kind = "TelemetrySubscriber"
            THEN <<"status_event_consumer.start", "sample_consumer.start">>
            ELSE <<"producer.start">>)

\* The await that follows `pc`, or "returned" after the last one.
NextAwait(kind, pc) ==
    LET awaits == InitializeAwaits(kind)
        k == CHOOSE k \in DOMAIN awaits : awaits[k] = pc
    IN  IF k = Len(awaits) THEN "returned" ELSE awaits[k + 1]

\* The fields after the await `pc` has returned, up to the next await:
\* <<_is_initialized, clients>>.
AfterAwait(kind, pc, init, conn) ==
    CASE pc = "admin.start" -> <<init, [conn EXCEPT !["admin"] = "started"]>>
      [] pc = "_create_topic" ->
            <<TRUE, [f \in ClientFields |->
                        IF f \in Connections(kind) \ {"admin"} THEN "created" ELSE conn[f]]>>
      [] pc = "status_event_consumer.start" ->
            <<init, [conn EXCEPT !["status_event_consumer"] = "started"]>>
      [] pc = "sample_consumer.start" ->
            <<init, [conn EXCEPT !["sample_consumer"] = "started"]>>
      [] pc = "producer.start" -> <<init, [conn EXCEPT !["producer"] = "started"]>>

InitLife ==
    /\ lc_kind \in ComponentClasses
    /\ lc_pc = "new"
    /\ lc_init = FALSE
    /\ lc_conn = [f \in ClientFields |-> "None"]
    /\ lc_failures = <<>>
    /\ lc_listen = "not called"
    /\ IdleCodec /\ IdleEvent /\ IdleTopic /\ IdleAdmin
    /\ IdleRace /\ IdlePoll /\ IdleRouter
    /\ IdleSystem

\* initialize() is entered: a new admin client, then await its start()
EnterInitialize ==
    /\ lc_conn' = [lc_conn EXCEPT !["admin"] = "created"]
    /\ lc_pc' = "admin.start"

\* The owner awaits component.initialize(), again after a failure.
LcInitialize ==
    /\ lc_pc \in {"new", "raised"} /\ lc_listen = "not called"
    /\ EnterInitialize
    /\ UNCHANGED <<lc_kind, lc_init, lc_failures, lc_listen, codecVars, eventVars,
                   topicVars, adminVars, raceVars, pollVars, routerVars, sysVars>>

\* The pending await of initialize returns; initialize runs to its next await
\* or returns, and a listen_status_events that called it goes on to its loop.
LcAwaitReturns ==
    /\ lc_pc \notin {"new", "returned", "raised"}
    /\ lc_init' = AfterAwait(lc_kind, lc_pc, lc_init, lc_conn)[1]
    /\ lc_conn' = AfterAwait(lc_kind, lc_pc, lc_init, lc_conn)[2]
    /\ lc_pc' = NextAwait(lc_kind, lc_pc)
    /\ lc_listen' = IF lc_listen = "initializing" /\ NextAwait(lc_kind, lc_pc) = "returned"
                    THEN "iterating" ELSE lc_listen
    /\ UNCHANGED <<lc_kind, lc_failures, codecVars, eventVars, topicVars, adminVars,
                   raceVars, pollVars, routerVars, sysVars>>

\* The pending await raises (the broker is unreachable): initialize raises, and
\* so does a listen_status_events that called it.
LcAwaitRaises ==
    /\ lc_pc \notin {"new", "returned", "raised"}
    /\ Len(lc_failures) < MaxInitFailures
    /\ lc_failures' = Append(lc_failures, lc_pc)
    /\ lc_pc' = "raised"
    /\ lc_listen' = IF lc_listen = "initializing" THEN "raised" ELSE lc_listen
    /\ UNCHANGED <<lc_kind, lc_init, lc_conn, codecVars, eventVars, topicVars, adminVars,
                   raceVars, pollVars, routerVars, sysVars>>

\* listen_status_events is started: if not self._is_initialized it awaits
\* initialize(), else it iterates self._status_event_consumer.
LcListenStatusEvents ==
    /\ lc_kind = "TelemetrySubscriber"
    /\ lc_pc \in {"new", "returned", "raised"} /\ lc_listen = "not called"
    /\ IF lc_init
       THEN lc_listen' = "iterating" /\ UNCHANGED <<lc_pc, lc_conn>>
       ELSE lc_listen' = "initializing" /\ EnterInitialize
    /\ UNCHANGED <<lc_kind, lc_init, lc_failures, codecVars, eventVars, topicVars,
                   adminVars, raceVars, pollVars, routerVars, sysVars>>

NextLife == LcInitialize \/ LcAwaitReturns \/ LcAwaitRaises \/ LcListenStatusEvents

SpecLife == InitLife /\ [][NextLife]_vars


(***************************************************************************)
(* telemetry_service.polling: the /start and /stop handlers and on_shutdown *)
(* on one event loop.                                                       *)
(***************************************************************************)
\* /start and /stop requests
MaxRequests == 3

\* asyncio.create_task(poll_sensor(sensor, ..., producer, ...))
PollTask(sensor, producer) ==
    [sensor |-> sensor, producer |-> producer, state |-> "alive", must_cancel |-> FALSE]

Request(kind, pc, producer, awaited, response) ==
    [kind |-> kind, pc |-> pc, producer |-> producer, awaited |-> awaited,
     response |-> response]

\* _tasks.values()
TrackedTasks == {_tasks[s] : s \in Sensors} \ {0}

LivePollTasks == {i \in DOMAIN poll_tasks : poll_tasks[i].state = "alive"}

ShutDown == \E r \in DOMAIN requests : requests[r].kind = "shutdown"

\* for t in _tasks.values(): t.cancel()
CancelTracked ==
    [i \in DOMAIN poll_tasks |->
        IF i \in TrackedTasks /\ poll_tasks[i].state = "alive"
        THEN [poll_tasks[i] EXCEPT !.must_cancel = TRUE]
        ELSE poll_tasks[i]]

InitPoll ==
    /\ IdlePoll
    /\ IdleCodec /\ IdleEvent /\ IdleTopic /\ IdleAdmin
    /\ IdleRace /\ IdleLife /\ IdleRouter
    /\ IdleSystem

\* start_polling up to `await producer.start()`, or its "already running"
StartPollingBegin ==
    /\ Len(requests) < MaxRequests /\ ~ShutDown
    /\ IF running
       THEN /\ requests' = Append(requests, Request("start", "done", 0, {}, "already running"))
            /\ last_response' = "already running"
            /\ UNCHANGED producers
       ELSE /\ producers' = Append(producers, "starting")
            /\ requests' = Append(requests, Request("start", "producer.start",
                                                    Len(producers) + 1, {}, "-"))
            /\ UNCHANGED last_response
    /\ UNCHANGED <<running, app_producer, poll_tasks, _tasks, codecVars, eventVars,
                   topicVars, adminVars, raceVars, lifeVars, routerVars, sysVars>>

\* start_polling after producer.start() returned: app["producer"], the two
\* tasks, app["running"] = True
StartPollingResume ==
    \E r \in DOMAIN requests :
        LET p == requests[r].producer
            n == Len(poll_tasks)
        IN  /\ requests[r].pc = "producer.start"
            /\ producers' = [producers EXCEPT ![p] = "started"]
            /\ app_producer' = p
            /\ poll_tasks' = poll_tasks \o <<PollTask("s1", p), PollTask("s2", p)>>
            /\ _tasks' = [s \in Sensors |-> IF s = "s1" THEN n + 1 ELSE n + 2]
            /\ running' = TRUE
            /\ requests' = [requests EXCEPT ![r].pc = "done", ![r].response = "started"]
            /\ last_response' = "started"
            /\ UNCHANGED <<codecVars, eventVars, topicVars, adminVars, raceVars, lifeVars,
                           routerVars, sysVars>>

\* stop_polling up to `await asyncio.gather(...)`, or its "not running"
StopPollingBegin ==
    /\ Len(requests) < MaxRequests /\ ~ShutDown
    /\ IF ~running
       THEN /\ requests' = Append(requests, Request("stop", "done", 0, {}, "not running"))
            /\ last_response' = "not running"
            /\ UNCHANGED poll_tasks
       ELSE /\ poll_tasks' = CancelTracked
            /\ requests' = Append(requests, Request("stop", "gather", 0, TrackedTasks, "-"))
            /\ UNCHANGED last_response
    /\ UNCHANGED <<running, app_producer, producers, _tasks, codecVars, eventVars,
                   topicVars, adminVars, raceVars, lifeVars, routerVars, sysVars>>

\* on_shutdown up to `await asyncio.gather(...)`, or nothing when not running
OnShutdownBegin ==
    /\ ~ShutDown
    /\ IF ~running
       THEN /\ requests' = Append(requests, Request("shutdown", "done", 0, {}, "-"))
            /\ UNCHANGED poll_tasks
       ELSE /\ poll_tasks' = CancelTracked
            /\ requests' = Append(requests, Request("shutdown", "gather", 0, TrackedTasks, "-"))
    /\ UNCHANGED <<running, app_producer, producers, _tasks, last_response, codecVars,
                   eventVars, topicVars, adminVars, raceVars, lifeVars, routerVars,
                   sysVars>>

\* A cancelled poll_sensor task gets CancelledError at its await and ends.
PollTaskCancelled ==
    \E i \in DOMAIN poll_tasks :
        /\ poll_tasks[i].state = "alive" /\ poll_tasks[i].must_cancel
        /\ poll_tasks' = [poll_tasks EXCEPT ![i].state = "cancelled"]
        /\ UNCHANGED <<running, app_producer, producers, _tasks, requests, last_response,
                       codecVars, eventVars, topicVars, adminVars, raceVars, lifeVars,
                       routerVars, sysVars>>

\* gather returned: stop_polling clears _tasks; both go on to
\* `await app["producer"].stop()`
PollingGathered ==
    \E r \in DOMAIN requests :
        /\ requests[r].pc = "gather"
        /\ requests[r].awaited \cap LivePollTasks = {}
        /\ _tasks' = IF requests[r].kind = "stop" THEN [s \in Sensors |-> 0] ELSE _tasks
        /\ requests' = [requests EXCEPT ![r].pc = "producer.stop",
                                        ![r].producer = app_producer]
        /\ UNCHANGED <<running, app_producer, producers, poll_tasks, last_response,
                       codecVars, eventVars, topicVars, adminVars, raceVars, lifeVars,
                       routerVars, sysVars>>

\* producer.stop() returned: stop_polling sets app["running"] = False and
\* answers "stopped"; on_shutdown returns
PollingProducerStopped ==
    \E r \in DOMAIN requests :
        /\ requests[r].pc = "producer.stop"
        /\ producers' = [producers EXCEPT ![requests[r].producer] = "stopped"]
        /\ IF requests[r].kind = "stop"
           THEN /\ running' = FALSE
                /\ last_response' = "stopped"
                /\ requests' = [requests EXCEPT ![r].pc = "done", ![r].response = "stopped"]
           ELSE /\ requests' = [requests EXCEPT ![r].pc = "done"]
                /\ UNCHANGED <<running, last_response>>
        /\ UNCHANGED <<app_producer, poll_tasks, _tasks, codecVars, eventVars, topicVars,
                       adminVars, raceVars, lifeVars, routerVars, sysVars>>

NextPoll ==
    \/ StartPollingBegin
    \/ StartPollingResume
    \/ StopPollingBegin
    \/ OnShutdownBegin
    \/ PollTaskCancelled
    \/ PollingGathered
    \/ PollingProducerStopped

SpecPoll == InitPoll /\ [][NextPoll]_vars

(***************************************************************************)
(* OldSystemTempSensorRouter: get_device and delete_device.                 *)
(***************************************************************************)
\* The status the old service answers a request for one sensor with, or the
\* failure of the connection.
OldServiceAnswers(sensors, device_id) ==
    {IF device_id \in sensors THEN "200" ELSE "404", "500", "ClientError"}

\* _convert_to_sensor_info: self._sensor_uuids[old_sensor_info.id] on the
\* defaultdict(uuid4); a missing key is entered with a fresh uuid4().
convert_to_sensor_info(uuids, device_id, fresh) ==
    IF uuids[device_id] = 0 THEN [uuids EXCEPT ![device_id] = fresh] ELSE uuids

\* del self._sensor_uuids[device_id]: KeyError for a missing key, for which
\* a defaultdict calls no factory.
del_sensor_uuid(uuids, device_id) ==
    IF uuids[device_id] = 0 THEN Raise("KeyError")
    ELSE Ok([uuids EXCEPT ![device_id] = 0])

InitRouter ==
    /\ _sensor_uuids = [d \in DeviceIds |-> 0]
    /\ old_sensors \in SUBSET DeviceIds
    /\ rt_call = NoCall
    /\ rt_ret = Unset
    /\ uuid_count = 0
    /\ IdleCodec /\ IdleEvent /\ IdleTopic /\ IdleAdmin
    /\ IdleRace /\ IdleLife /\ IdlePoll
    /\ IdleSystem

\* await router.get_device(device_id): 200 is converted; the HTTPException of
\* 404 and every other failure leave as OldServiceNotWorking (503).
RouterGetDevice ==
    \E device_id \in DeviceIds :
      \E status \in OldServiceAnswers(old_sensors, device_id) :
        LET uuids == convert_to_sensor_info(_sensor_uuids, device_id, uuid_count + 1)
        IN  /\ rt_call' = [op |-> "get_device", device_id |-> device_id, status |-> status]
            /\ IF status = "200"
               THEN /\ _sensor_uuids' = uuids
                    /\ uuid_count' = IF uuids = _sensor_uuids THEN uuid_count
                                     ELSE uuid_count + 1
                    /\ rt_ret' = Ok(uuids[device_id])
               ELSE /\ rt_ret' = Raise("OldServiceNotWorking")
                    /\ UNCHANGED <<_sensor_uuids, uuid_count>>
            /\ UNCHANGED <<old_sensors, codecVars, eventVars, topicVars, adminVars,
                           raceVars, lifeVars, pollVars, sysVars>>

\* await router.delete_device(device_id): on 200 the old service has deleted
\* the sensor and the mapping is deleted; 404 is re-raised as HTTPException;
\* every other exception leaves as OldServiceNotWorking (503).
RouterDeleteDevice ==
    \E device_id \in DeviceIds :
      \E status \in OldServiceAnswers(old_sensors, device_id) :
        LET deleted == del_sensor_uuid(_sensor_uuids, device_id)
        IN  /\ rt_call' = [op |-> "delete_device", device_id |-> device_id,
                           status |-> status]
            /\ old_sensors' = IF status = "200" THEN old_sensors \ {device_id}
                              ELSE old_sensors
            /\ IF status = "200"
               THEN IF deleted.ok
                    THEN _sensor_uuids' = deleted.val /\ rt_ret' = Ok("None")
                    ELSE /\ rt_ret' = Raise("OldServiceNotWorking")
                         /\ UNCHANGED _sensor_uuids
               ELSE /\ rt_ret' = IF status = "404" THEN Raise("HTTPException 404")
                                 ELSE Raise("OldServiceNotWorking")
                    /\ UNCHANGED _sensor_uuids
            /\ UNCHANGED <<uuid_count, codecVars, eventVars, topicVars, adminVars,
                           raceVars, lifeVars, pollVars, sysVars>>

NextRouter == RouterGetDevice \/ RouterDeleteDevice

SpecRouter == InitRouter /\ [][NextRouter]_vars

(***************************************************************************)
(* Properties.                                                              *)
(***************************************************************************)
Called(result) == result.err # "<not called>"

StartedTopics == {t \in TopicNames : lastEvent[t] = "started"}

\* C1: once the control-event loop has handled a sequence of MeasurementStarted
\* and MeasurementStopped events, the registry's keys and the data consumer's
\* subscription are exactly the topics whose latest event was MeasurementStarted.
C1_RegistryConvergence ==
    ctrl = "listening" =>
        /\ RegistryKeys(registry) = StartedTopics
        /\ subscription = StartedTopics

\* C2: at most one sample-consumption task is alive (created and not yet
\* terminated) in every state, also right after MeasurementStarted replaced a
\* running task.
C2_SingleConsumptionTask == Cardinality(AliveTasks) <= 1

\* C3: after a record whose handling failed, a later valid record received by
\* the same task is still decoded and passed to the sample handler.
C3_PerRecordIsolation ==
    (lastRecv.afterBad /\ lastRecv.valid) =>
        /\ Alive(tasks[lastRecv.task])
        /\ HandlerCalled(lastRecv.outcome)

\* C4: a control-topic body that is no valid status event is dropped: the
\* registry, the data consumer's subscription and the consumption tasks are
\* unchanged, and the control-event loop keeps listening.
C4_MalformedDropped ==
    [][ (foreignLeft' # foreignLeft /\ lastCtl' = "malformed") =>
            /\ UNCHANGED <<registry, subscription, assignment, tasks, listen_samples_task>>
            /\ ctrl' = "listening" ]_vars

\* A valid MeasurementStarted was handled after a malformed body was dropped.
C4_Witness ==
    /\ sawDropped /\ lastCtl = "started"
    /\ RegistryKeys(registry) # {}
    /\ ctrl = "listening"

DemoTopic == topic_name("float_temp_sensor_1", "FLOAT_BINARY", "u1")

\* C5: with the Subscriber listening before push_some_events starts, once the
\* program (start event, five samples, stop event) is over and its records are
\* consumed, process_sample has been called exactly five times with the
\* published values in order and the topic is out of the registry.
C5_EndToEnd ==
    ( /\ pub_sub_ready
      /\ pub_plan \in {NoPlan, Batch(FiveSamples)}
      /\ pse_pc \in {"returned", "raised"}
      /\ inflight = <<>> /\ controlQ = <<>> /\ dataQ[DemoTopic] = <<>> )
    => /\ handled = [i \in 1..5 |-> <<DemoTopic, FiveSamples[i].value>>]
       /\ registry[DemoTopic] = "<absent>"

\* Floats that binary32 holds exactly (NaN aside).
Binary32Exact(x) ==
    x.t = "float" /\ RoundSig24(IF x.v < 0 THEN -x.v ELSE x.v) = (IF x.v < 0 THEN -x.v ELSE x.v)

\* C6: decoding the FLOAT_BINARY payload of a float sample gives back its
\* value, null gives null, and a payload whose flag is false decodes to null.
C6_RoundTrip ==
    /\ ( /\ Called(cx_rt) /\ cx_format = "FLOAT_BINARY"
         /\ cx_sample.cls = "FloatTelemetrySample"
         /\ (PyIsNone(cx_sample.value) \/ Binary32Exact(cx_sample.value)) )
       => /\ cx_rt.ok
          /\ IF PyIsNone(cx_sample.value)
             THEN PyIsNone(cx_rt.val.value)
             ELSE PyEq(cx_rt.val.value, cx_sample.value)
    /\ (Called(cx_dec) /\ cx_format = "FLOAT_BINARY" /\ cx_blob = Blob(<<0>>))
       => (cx_dec.ok /\ PyIsNone(cx_dec.val.value))

\* C7: the FLOAT_BINARY payload of a null sample is the single byte of a false
\* flag; that of a present value is five bytes, a true flag and the float.
C7_PayloadLength ==
    (Called(cx_enc) /\ cx_format = "FLOAT_BINARY" /\ cx_sample.cls = "FloatTelemetrySample")
    => /\ cx_enc.ok
       /\ IF PyIsNone(cx_sample.value)
          THEN cx_enc.val = <<0>>
          ELSE Len(cx_enc.val) = 5 /\ cx_enc.val[1] = 1

\* C8: FLOAT_BINARY encodes and decodes; every other format makes both fail
\* with NotImplementedError.
C8_FormatSupport ==
    /\ Called(cx_enc) =>
          IF cx_format = "FLOAT_BINARY"
          THEN cx_sample.cls = "FloatTelemetrySample" => cx_enc.ok
          ELSE ~cx_enc.ok /\ cx_enc.err = "NotImplementedError"
    /\ Called(cx_dec) =>
          IF cx_format = "FLOAT_BINARY"
          THEN WellFormedFloatPayload(cx_blob) => cx_dec.ok
          ELSE ~cx_dec.ok /\ cx_dec.err = "NotImplementedError"

\* The sample class each format declares.
ClassMatches(cls, sample_format) ==
    CASE sample_format \in {"FLOAT_BINARY", "FLOAT_WITH_TIMESTAMP"} -> cls = "FloatTelemetrySample"
      [] sample_format = "INT" -> cls = "IntTelemetrySample"
      [] sample_format = "BOOL" -> cls = "BoolTelemetrySample"
      [] sample_format = "TEXT" -> cls = "TextTelemetrySample"
      [] OTHER -> cls = "CustomTelemetrySample"

HasMismatch(samples, sample_format) ==
    \E k \in DOMAIN samples.items : ~ClassMatches(samples.items[k].cls, sample_format)

\* C9: push_samples with a sample whose class does not match the Publisher's
\* format raises, and no payload made from such a sample is sent; a single
\* mismatched sample sends nothing at all.
C9_MismatchRejected ==
    (pub_plan # NoPlan /\ HasMismatch(pub_plan, pub_format)) =>
        /\ pse_pc = "raised" /\ pub_err # ""
        /\ \A k \in DOMAIN inflight :
              inflight[k].topic = pub_topic => ClassMatches(inflight[k].src, pub_format)
        /\ \A k \in DOMAIN dataQ[pub_topic] :
              ClassMatches(dataQ[pub_topic][k].src, pub_format)
        /\ pub_plan.single =>
              /\ dataQ[pub_topic] = <<>>
              /\ \A k \in DOMAIN inflight : inflight[k].topic # pub_topic

\* An int sample was pushed on a FLOAT_BINARY Publisher and the call raised.
C9_Witness ==
    /\ pub_format = "FLOAT_BINARY"
    /\ pub_plan = Single(Sample("IntTelemetrySample", PyInt(3), 0))
    /\ pse_pc = "raised" /\ pub_err # ""

\* C10: an event of any variant of the union, serialized and validated, comes
\* back as the same variant with the same discriminator; a body that
\* validates does so as the variant its discriminator names.
C10_EventRoundTrip ==
    /\ (Called(ev_back) /\ ev_in.cls \in UnionMembers) =>
          /\ ev_back.ok
          /\ ev_back.val.cls = ev_in.cls
          /\ ev_json.val.tag = ev_in.cls
          /\ ev_back.val.event_class_name = ev_json.val.tag
    /\ (Called(ev_parsed) /\ ev_parsed.ok) => ev_parsed.val.cls = ev_body.tag

\* SensorErrorStatusEvent, a subclass of a subclass of Info, came back as itself.
C10_Witness ==
    /\ Called(ev_back) /\ ev_back.ok
    /\ ev_in.cls = "SensorErrorStatusEvent"
    /\ ev_back.val.cls = "SensorErrorStatusEvent"

\* C11: two Publishers built from the same sensor name, process token and
\* format have the same data-topic name; two that differ only in the process
\* token have different names.
C11_TopicNameDeterminism ==
    (Called(tn_names[1]) /\ Called(tn_names[2])) =>
        /\ tn_names[1].ok /\ tn_names[2].ok
        /\ tn_args[1] = tn_args[2] => tn_names[1].val = tn_names[2].val
        /\ ( /\ tn_args[1].sensor_name = tn_args[2].sensor_name
              /\ tn_args[1].sample_format = tn_args[2].sample_format
              /\ tn_args[1].topic_uuid_str # tn_args[2].topic_uuid_str )
           => tn_names[1].val # tn_names[2].val

\* Two Publishers differing only in the token were built, their names differ.
C11_Witness ==
    /\ tn_names # <<>>
    /\ Called(tn_names[1]) /\ Called(tn_names[2])
    /\ tn_args[1].sensor_name = <<"s", "_">> /\ tn_args[2].sensor_name = <<"s", "_">>
    /\ tn_args[1].sample_format = tn_args[2].sample_format
    /\ tn_args[1].topic_uuid_str = <<"u">> /\ tn_args[2].topic_uuid_str = <<"_", "u">>
    /\ tn_names[1].val # tn_names[2].val

\* The topic of the last call was on the broker when the call was made.
AdminTopicExisted == \E d \in adm_broker : d.name = adm_call'.name

\* C12: _create_topic on a topic that exists raises ValueError and sends no
\* create request when crash_if_exists is true; when it is false it returns
\* normally and leaves the broker's topics and their configuration as they
\* were, however often it is called.
C12_ExistingTopic ==
    [][ (adm_n' # adm_n /\ AdminTopicExisted) =>
            /\ adm_broker' = adm_broker
            /\ adm_requests' = adm_requests
            /\ IF adm_call'.crash_if_exists
               THEN adm_ret' = Raise("ValueError")
               ELSE adm_ret'.ok ]_vars

\* Three calls met a topic of another configuration; the last one, with
\* crash_if_exists false, returned normally.
C12_Witness ==
    /\ adm_n = 3 /\ adm_ret.ok /\ ~adm_call.crash_if_exists
    /\ adm_requests = <<>>
    /\ adm_broker = {ForeignTopic(adm_call.name)}

\* C13: _create_topic on a topic that does not exist sends one create request,
\* for that topic with one partition, cleanup policy delete and a retention of
\* retention_days * 86,400,000 ms, and the broker then holds it; initialize
\* does so for the control topic with 5 days.
C13_CreatesTopic ==
    [][ (adm_n' # adm_n /\ ~AdminTopicExisted) =>
            LET made == [name |-> adm_call'.name, num_partitions |-> 1,
                         replication_factor |-> 1,
                         retention_ms |-> adm_call'.retention_days * 86400000,
                         cleanup_policy |-> "delete"]
            IN  /\ adm_ret'.ok
                /\ adm_requests' = Append(adm_requests, made)
                /\ adm_broker' = adm_broker \cup {made}
                /\ adm_call'.kind = "initialize" =>
                      /\ made.name = TELEMETRY_STATUS_EVENTS_TOPIC
                      /\ made.retention_ms = 432000000 ]_vars

\* initialize created the control topic on a broker that lacked it.
C13_Witness ==
    /\ adm_n > 0 /\ adm_call.kind = "initialize" /\ adm_ret.ok
    /\ Len(adm_requests) > 0
    /\ adm_requests[Len(adm_requests)].name = TELEMETRY_STATUS_EVENTS_TOPIC
    /\ adm_requests[Len(adm_requests)].retention_ms = 432000000

SampleClasses ==
    {"FloatTelemetrySample", "IntTelemetrySample", "BoolTelemetrySample",
     "TextTelemetrySample", "CustomTelemetrySample"}

Acknowledged(src) == \E k \in DOMAIN delivered : delivered[k] = src

SamplesAcknowledged == Cardinality({k \in DOMAIN delivered : delivered[k] \in SampleClasses})

WellTypedBatch ==
    pub_plan # NoPlan /\ ~pub_plan.single /\ ~HasMismatch(pub_plan, pub_format)

BatchSendFailed == \E k \in DOMAIN failed : failed[k].src \in SampleClasses

PushSamplesRaised ==
    /\ pub_plan # NoPlan /\ pse_pc = "raised"
    /\ ~Acknowledged("MeasurementStoppedStatusEvent")
    /\ \A k \in DOMAIN failed : failed[k].src # "MeasurementStoppedStatusEvent"

C17_CloseReleasesHandles ==
    /\ pse_pc = "returned" => pub_handles = {}
    /\ ctrl = "cancelled" => sub_handles = {}

\* C18: in every state left by the control-event loop the data consumer's
\* subscription is the registry's key set.
C18_SubscriptionIsRegistry == subscription = RegistryKeys(registry)

\* Two MeasurementStarted events registered two topics; both are subscribed.
C18_Witness ==
    /\ lastCtl = "started"
    /\ RegistryKeys(registry) = TopicNames
    /\ subscription = TopicNames

\* C19: a listen_samples task whose receive raised is terminated by that error.
C19_TransportErrorTerminates ==
    lastRecv.outcome = "KafkaError" =>
        /\ tasks[lastRecv.task].state = "failed"
        /\ ~Alive(tasks[lastRecv.task])

\* A receive error ended a task, and a following MeasurementStarted created
\* the next task.
C19_Witness ==
    /\ lastRecv.outcome = "KafkaError"
    /\ tasks[lastRecv.task].state = "failed"
    /\ listen_samples_task > lastRecv.task

\* C20: the data consumer's subscription is changed, and a consumption task is
\* created, only while no consumption task is alive.
C20_RestartProtocol ==
    [][ (subscription' # subscription \/ Len(tasks') > Len(tasks))
            => AliveTasks = {} ]_vars

TransportErrorOccurred == \E i \in DOMAIN tasks : tasks[i].state = "failed"

\* Task i is inside the async for of listen_samples with no cancel pending.
Running(i) == tasks[i].state = "waiting" /\ ~tasks[i].must_cancel

Listening(topic) == topic \in subscription /\ \E i \in DOMAIN tasks : Running(i)

\* C21: the step that handles MeasurementStarted(T, f) leaves the registry
\* mapping T to f and the data consumer subscribed to T; while topics are
\* registered a consumption task is alive, and a task is eventually running with
\* T subscribed, unless a transport error ended a task.
C21_StartedListening ==
    /\ [][ (foreignLeft' # foreignLeft /\ lastCtl' = "started") =>
               /\ registry'[lastStarted'.topic] = lastStarted'.format
               /\ lastStarted'.topic \in subscription' ]_vars
    /\ []( RegistryKeys(registry) # {} => (AliveTasks # {} \/ TransportErrorOccurred) )
    /\ \A t \in TopicNames :
          (lastStarted.topic = t) ~> (Listening(t) \/ TransportErrorOccurred)

\* After two MeasurementStarted events, the second for format INT, the task of
\* the second is running; no transport error occurred.
C21_Witness ==
    /\ lastCtl = "started" /\ lastStarted.format = "INT"
    /\ registry[lastStarted.topic] = "INT"
    /\ Len(tasks) = 2 /\ Running(2)
    /\ Listening(lastStarted.topic)
    /\ ~TransportErrorOccurred

\* C22: the step of the control-event loop that handles a valid status event
\* of a variant other than MeasurementStarted and MeasurementStopped leaves the
\* registry, the subscription and the consumption tasks unchanged.
C22_OtherVariantsFrame ==
    [][ (foreignLeft' # foreignLeft /\ lastCtl' = "other") =>
            UNCHANGED <<registry, subscription, assignment, tasks, listen_samples_task>> ]_vars

\* A running task and its registered topic, after an event of another variant.
C22_Witness ==
    /\ lastCtl = "other"
    /\ Len(tasks) = 1 /\ Running(1)
    /\ RegistryKeys(registry) = subscription /\ subscription # {}

\* C23: the registry changes only in a step of the control-event loop that
\* handles MeasurementStarted, and every record a listen_samples task decodes
\* is decoded with the registry as it was when the task was created: no write
\* lies between the creation of the task and the decode.
C23_NoWriteObserved ==
    [][ /\ (registry' # registry \/ reg_writes' # reg_writes) =>
               (foreignLeft' # foreignLeft /\ lastCtl' = "started")
        /\ (lastRecv'.task # 0 /\ lastRecv'.outcome # "KafkaError") =>
               lastRecv'.seen = built'[lastRecv'.task] ]_vars

\* The first task was replaced by a second write, and the second task decoded
\* a record after it.
C23_Witness ==
    /\ reg_writes = 2 /\ Len(tasks) = 2
    /\ tasks[1].state = "cancelled"
    /\ lastRecv.task = 2 /\ lastRecv.outcome # "KafkaError"
    /\ lastRecv.seen = 2

\* C24: a listen_samples task with a cancel pending handles no record; its
\* next step ends it as cancelled, a cancelled task stays cancelled, and the
\* step that ends it handles no record; the pending cancel does end the task.
C24_CancellationAtReceive ==
    /\ [][ \A i \in DOMAIN tasks :
              /\ (tasks[i].must_cancel /\ tasks'[i] # tasks[i]) =>
                     /\ tasks'[i].state = "cancelled"
                     /\ UNCHANGED <<lastRecv, handled>>
              /\ (lastRecv' # lastRecv /\ lastRecv'.task = i) => ~tasks[i].must_cancel
              /\ tasks[i].state = "cancelled" => tasks'[i] = tasks[i] ]_vars
    /\ \A i \in 1..MaxForeign :
          (i \in DOMAIN tasks /\ tasks[i].must_cancel)
              ~> (i \in DOMAIN tasks /\ tasks[i].state = "cancelled")

\* A task that handled a record was cancelled by the next MeasurementStarted.
C24_Witness ==
    /\ lastRecv.task = 1 /\ lastRecv.outcome # "KafkaError"
    /\ Len(tasks) = 2
    /\ tasks[1].state = "cancelled" /\ tasks[1].must_cancel

\* C25: once a listen_samples task has ended with a transport error, the
\* Subscriber creates no further listen_samples task.
C25_NoRestartAfterTransportError ==
    [][ TransportErrorOccurred => Len(tasks') = Len(tasks) ]_vars

\* C26: a _create_topic(name, crash_if_exists=False) call that is over has
\* returned normally and the broker holds exactly one topic of that name,
\* also when another caller created the topic between this caller's
\* list_topics and its create request.
C26_ConcurrentEnsureTopic ==
    \A c \in Callers :
        (ct_pc[c] = "done" /\ ~ct_args[c].crash_if_exists) =>
            /\ ct_ret[c] = Ok("None")
            /\ Cardinality({d \in ct_broker : d.name = ct_args[c].name}) = 1

\* Both callers listed a broker without the control topic, both sent their
\* create request, both returned; the broker holds the topic once.
C26_Witness ==
    /\ \A c \in Callers :
          /\ ct_pc[c] = "done" /\ ct_ret[c] = Ok("None")
          /\ ct_args[c].name = TELEMETRY_STATUS_EVENTS_TOPIC
          /\ ~ct_args[c].crash_if_exists
          /\ TELEMETRY_STATUS_EVENTS_TOPIC \notin ct_listed[c]
    /\ Cardinality({d \in ct_broker : d.name = TELEMETRY_STATUS_EVENTS_TOPIC}) = 1

\* push_samples was called with an iterable one of whose samples cannot be
\* encoded.
BatchEncodingFailed ==
    /\ pub_plan # NoPlan /\ ~pub_plan.single
    /\ \E k \in DOMAIN pub_plan.items :
          ~serialize_sample(pub_plan.items[k], pub_format).ok

\* The error of the first sample of the batch that cannot be encoded.
FirstEncodingError ==
    LET bad == {k \in DOMAIN pub_plan.items :
                   ~serialize_sample(pub_plan.items[k], pub_format).ok}
        first == CHOOSE k \in bad : \A j \in bad : k <= j
    IN  serialize_sample(pub_plan.items[first], pub_format).err

C28_InitializedAfterConnections ==
    /\ (lc_pc \in {"returned", "raised"} /\ lc_init) =>
          \A f \in Connections(lc_kind) : lc_conn[f] = "started"
    /\ lc_listen = "iterating" => lc_conn["status_event_consumer"] = "started"

\* C29: at most one live polling task per sensor and one producer that is not
\* stopped; every live polling task is the one _tasks holds for its sensor;
\* when the last request that completed was a /stop that answered "stopped",
\* no polling task is alive and app["running"] is false.
C29_PollingRequests ==
    /\ \A s \in Sensors :
          Cardinality({i \in LivePollTasks : poll_tasks[i].sensor = s}) <= 1
    /\ Cardinality({p \in DOMAIN producers : producers[p] # "stopped"}) <= 1
    /\ \A i \in LivePollTasks : _tasks[poll_tasks[i].sensor] = i
    /\ last_response = "stopped" => (LivePollTasks = {} /\ ~running)

\* C30: delete_device answered by the old service with 200 returns normally
\* and leaves no mapping for the device id, whether or not there was one;
\* answered with 404 it raises the not-found error and leaves the mappings
\* unchanged.
C30_DeleteDevice ==
    [][ rt_call'.op = "delete_device" =>
          /\ rt_call'.status = "200" =>
                (rt_ret' = Ok("None") /\ _sensor_uuids'[rt_call'.device_id] = 0)
          /\ rt_call'.status = "404" =>
                (rt_ret' = Raise("HTTPException 404") /\ UNCHANGED _sensor_uuids) ]_vars

=============================================================================
